---- MODULE Spec2Model ----
(***************************************************************************)
(* Model of the seo_checker audit pipeline: the ten analyzers, the         *)
(* pipeline executor run_all_checks with its per-analyzer fault isolation, *)
(* the author cross-check, the score aggregator, the history store and the *)
(* batch driver with its exit code.                                        *)
(*                                                                         *)
(* Python values are modelled as follows: str -> string, None -> None,     *)
(* bool -> BOOLEAN, int -> Int, list -> sequence, dict -> record.          *)
(* Percentages are kept exact as integers scaled by a stated factor.       *)
(***************************************************************************)
EXTENDS Integers, Sequences, FiniteSets, TLC

VARIABLES
    args,           \* parsed command line: threshold, no_history, keyword, max_links,
                    \* output_json, output_csv, show_history, use_scraperapi (the
                    \* flag given and SCRAPERAPI_KEY set)
    urls,           \* positional URLs plus --url-file lines, in input order
    web,            \* what each URL serves: fetch outcome, page, analyzers that may raise
    pc,             \* position of the __main__ script / run_all_checks
    unique_urls,    \* deduplicated URL list
    idx,            \* index into unique_urls of the URL being audited
    step,           \* number of analyzers already run for the current URL
    results,        \* run_all_checks' results dict for the current URL
    raised,         \* analyzers whose call raised in the current run_all_checks
    crossed,        \* TRUE once the author cross-check ran for the current URL
    outputs,        \* the outputs list of __main__
    files,          \* output files written so far (--output-json / --output-csv)
    history,        \* lines of the history file
    exit_code,      \* process exit code, Running until sys.exit
    shown           \* the tables _show_history printed

vars == <<args, urls, web, pc, unique_urls, idx, step, results, raised, crossed,
          outputs, files, history, exit_code, shown>>

----------------------------------------------------------------------------
(* Python helpers *)

None == "<None>"

EmptyDict == <<>>

\* dict.get(key) with default None
Get(d, k) == IF k \in DOMAIN d THEN d[k] ELSE None

\* dict.get(key, {})
GetDict(d, k) == IF k \in DOMAIN d THEN d[k] ELSE EmptyDict

\* the test 'is not None' in place of truthiness
IsNotNone(s) == s # None

\* truthiness of a str-or-None value
Truthy(s) == s # None /\ s # ""

Min(a, b) == IF a <= b THEN a ELSE b

Max(a, b) == IF a >= b THEN a ELSE b

RECURSIVE SeqSum(_)
SeqSum(s) == IF s = <<>> THEN 0 ELSE Head(s) + SeqSum(Tail(s))

RECURSIVE FilterSeq(_, _)
\* [x for x in s if x in keep]
FilterSeq(s, keep) ==
    IF s = <<>> THEN <<>>
    ELSE IF Head(s) \in keep THEN <<Head(s)>> \o FilterSeq(Tail(s), keep)
         ELSE FilterSeq(Tail(s), keep)

\* the URL list taken as it is
KeepRepeats(s, seen) == s

RECURSIVE Dedupe(_, _)
\* order-preserving deduplication: list(dict.fromkeys(s)) and the seen-set loop
Dedupe(s, seen) ==
    IF s = <<>> THEN <<>>
    ELSE IF Head(s) \in seen THEN Dedupe(Tail(s), seen)
         ELSE <<Head(s)>> \o Dedupe(Tail(s), seen \cup {Head(s)})

Range(s) == {s[i] : i \in DOMAIN s}

\* s[:n] for n >= 0
Prefix(s, n) == SubSeq(s, 1, Min(Len(s), n))

RECURSIVE Flatten(_)
Flatten(ss) == IF ss = <<>> THEN <<>> ELSE Head(ss) \o Flatten(Tail(ss))

\* an exception leaving an analyzer
Raise(cause) == [raised |-> TRUE, cause |-> cause]

IsRaise(out) == "raised" \in DOMAIN out

----------------------------------------------------------------------------
(* fetch_utils.fetch_html *)

\* what a request ends in: an exception of requests, or a response
Failure(exc) == [exc |-> exc, status |-> 0, text |-> None]

Response(status, text) == [exc |-> None, status |-> status, text |-> text]

\* the exception classes that 'except requests.RequestException' catches
RequestExceptions == {"ConnectionError", "Timeout", "HTTPError"}

\* raise_for_status raising for every status but the 4xx ones
RaiseForServerErrors(r) == 500 <= r.status /\ r.status < 600

\* r.raise_for_status() raises HTTPError: a 4xx or 5xx status
raise_for_status(r) == 400 <= r.status /\ r.status < 600

\* fetch_html on a site that answers the successive requests with answers[1],
\* answers[2]; via_api is use_scraperapi and scraperapi_key. The outcome is the
\* value returned and the number of requests sent, or the exception that leaves.
fetch_html(answers, via_api) ==
    LET Leave(exc, sent) ==
            IF exc \in RequestExceptions THEN [value |-> None, sent |-> sent]
            ELSE Raise(exc)
        Last(r, sent) ==
            IF r.exc # None THEN Leave(r.exc, sent)
            ELSE IF raise_for_status(r) THEN Leave("HTTPError", sent)
            ELSE [value |-> r.text, sent |-> sent]
    IN  IF via_api THEN Last(answers[1], 1)
        ELSE IF answers[1].exc # None THEN Leave(answers[1].exc, 1)
        ELSE IF answers[1].status = 403 THEN Last(answers[2], 2)
        ELSE Last(answers[1], 1)

\* a site whose answer makes fetch_html return html
Serve(html) ==
    IF html = None THEN <<Failure("ConnectionError")>> ELSE <<Response(200, html)>>

----------------------------------------------------------------------------
(* String tables: the text operations the code applies, on the texts used *)

Title49 == "Plain guide to better pages and faster sites forx"
Title50 == "Plain guide to better pages and faster sites for e"
Title50Kw == "SEO audit guide to better pages and faster sites f"
Title60 == "Plain guide to better pages and faster sites for every teamx"
Title61 == "Plain guide to better pages and faster sites for every team w"
Desc119 == "Plain guide to better pages and faster sites for every team with clear steps that work today guide to better pages andx"
Desc120 == "Plain guide to better pages and faster sites for every team with clear steps that work today guide to better pages and f"
Desc120Kw == "Seo tips guide to better pages and faster sites for every team with clear steps that work today guide to better pages an"
Desc155 == "Plain guide to better pages and faster sites for every team with clear steps that work today guide to better pages and faster sites for every team with cle"
Desc156 == "Plain guide to better pages and faster sites for every team with clear steps that work today guide to better pages and faster sites for every team with clea"

TheKeyword == "seo"

\* keyword.lower() in text.lower(), for keyword "seo"
KeywordIn(kw, text) == kw = TheKeyword /\ text \in {Title50Kw, Desc120Kw}

\* str.lower()
Lower(s) ==
    CASE s \in {"Jane Doe", "JANE DOE", "jane doe"} -> "jane doe"
      [] s \in {"Bob Roe", "bob roe"} -> "bob roe"
      [] s = " Jane Doe " -> " jane doe "
      [] OTHER -> s

\* str.strip()
Strip(s) ==
    CASE s = " Jane Doe " -> "Jane Doe"
      [] s = "  " -> ""
      [] OTHER -> s

TitleMinLen == 50
TitleMaxLen == 60
DescMinLen == 120
DescMaxLen == 155

----------------------------------------------------------------------------
(* title_meta_checker.check_title_and_meta                                *)
(* (the en dash of the two length messages is written as a hyphen)         *)

TitleMsg == "Title length should be in the 50-60 character range."
DescMsg == "Meta description length should be in the 120-155 character range."

\* the 'title' sub-result; page.title is the stripped text of <title>, None without one
TitleResult(page, keyword) ==
    IF page.title = None
    THEN [found |-> FALSE, content |-> None, status |-> "missing"]
    ELSE LET t == page.title
             badlen == Len(t) < TitleMinLen \/ Len(t) > TitleMaxLen
             nokw == keyword # None /\ keyword # "" /\ ~KeywordIn(keyword, t)
             base == [found |-> TRUE, content |-> t,
                      status |-> IF badlen \/ nokw THEN "warning" ELSE "ok"]
             kwmsg == "Keyword \"" \o keyword \o "\" not found in title."
         IN  IF badlen /\ nokw THEN base @@ [message |-> TitleMsg \o " " \o kwmsg]
             ELSE IF badlen THEN base @@ [message |-> TitleMsg]
             ELSE IF nokw THEN base @@ [message |-> kwmsg]
             ELSE base

\* the 'meta_description' sub-result; page.meta_description is the stripped content
\* attribute, None without the tag or without the attribute
MetaDescriptionResult(page, keyword) ==
    IF page.meta_description = None
    THEN [found |-> FALSE, content |-> None, status |-> "missing"]
    ELSE LET t == page.meta_description
             badlen == Len(t) < DescMinLen \/ Len(t) > DescMaxLen
             nokw == keyword # None /\ keyword # "" /\ ~KeywordIn(keyword, t)
             base == [found |-> TRUE, content |-> t,
                      status |-> IF badlen \/ nokw THEN "warning" ELSE "ok"]
             kwmsg == "Keyword \"" \o keyword \o "\" not found in meta description."
         IN  IF badlen /\ nokw THEN base @@ [message |-> DescMsg \o " " \o kwmsg]
             ELSE IF badlen THEN base @@ [message |-> DescMsg]
             ELSE IF nokw THEN base @@ [message |-> kwmsg]
             ELSE base

\* author_content: <meta name=author>, else article:author, else byl; each field is
\* the raw content attribute, None without the tag or attribute
AuthorContent(page) ==
    IF page.author_meta # None THEN Strip(page.author_meta)
    ELSE IF page.og_author # None THEN Strip(page.og_author)
    ELSE IF page.byl # None THEN Strip(page.byl)
    ELSE None

\* the author sub-result with a found author held at warning until confirmed
AuthorResultUnconfirmed(page) ==
    LET c == AuthorContent(page)
    IN  IF Truthy(c) THEN [found |-> TRUE, content |-> c, status |-> "warning"]
        ELSE [found |-> FALSE, content |-> None, status |-> "fail"]

AuthorResult(page) ==
    LET c == AuthorContent(page)
    IN  IF Truthy(c) THEN [found |-> TRUE, content |-> c, status |-> "ok"]
        ELSE [found |-> FALSE, content |-> None, status |-> "fail"]

check_title_and_meta(page, keyword) ==
    [title |-> TitleResult(page, keyword),
     meta_description |-> MetaDescriptionResult(page, keyword),
     author |-> AuthorResult(page)]

----------------------------------------------------------------------------
(* headings_checker.check_headings *)

HierarchyMsg == "Heading levels are not in a strict hierarchical order. (e.g., jumping from h2 to h4)."

RECURSIVE LevelJump(_, _)
\* the loop over heading_levels: TRUE when some level exceeds current_level + 1
\* with current_level # 0
LevelJump(levels, current_level) ==
    IF levels = <<>> THEN FALSE
    ELSE IF Head(levels) > current_level + 1 /\ current_level # 0 THEN TRUE
         ELSE LevelJump(Tail(levels), Head(levels))

\* page.headings: the levels of the h1..h6 elements in document order
\* (h1_content is the stripped text of the first h1, kept abstract as "H1 text")
check_headings(page) ==
    LET levels == page.headings
        has_h1 == 1 \in Range(levels)
        first == [h1_status |-> IF has_h1 THEN "found" ELSE "missing",
                  h1_content |-> IF has_h1 THEN "H1 text" ELSE None,
                  h_hierarchy |-> IF has_h1 THEN "ok" ELSE "error",
                  h_tags_found |-> levels]
    IN  IF LevelJump(levels, 0)
        THEN [first EXCEPT !.h_hierarchy = "warning"] @@ [h_hierarchy_message |-> HierarchyMsg]
        ELSE first

----------------------------------------------------------------------------
(* schema_checker.check_schema *)

\* page.ld_json: the application/ld+json script elements in document order. Each is
\*   [kind |-> "invalid_json"]  json.loads raises JSONDecodeError,
\*   [kind |-> "empty"]         tag.string is None, json.loads(None) raises TypeError,
\*   [kind |-> "json", toplist, items]  parsed; items are the blocks looped over
\*     (the value itself, or its elements when the top-level value is a list).
\* An item is [isdict, type, type_list, author_names]: type is a str "@type" or
\* None, type_list the elements of a list "@type", author_names the names the
\* 'author' value yields (a dict's truthy name, a list's named dicts and strs, a str).

SchemaTypeLower(t) ==
    CASE t = "Article" -> "article"
      [] t = "BlogPosting" -> "blogposting"
      [] t = "FAQPage" -> "faqpage"
      [] OTHER -> t

TagRaises(tag) ==
    \/ tag.kind = "empty"
    \/ tag.kind = "json" /\ \E i \in DOMAIN tag.items : ~tag.items[i].isdict

TagCause(tag) ==
    IF tag.kind = "empty"
    THEN "the JSON object must be str, bytes or bytearray, not NoneType"
    ELSE "object has no attribute 'get'"

ItemTypes(b) ==
    IF b.type_list # <<>> THEN b.type_list
    ELSE IF b.type # None THEN <<b.type>> ELSE <<>>

ItemAuthors(b) ==
    IF b.type # None /\ b.type_list = <<>>
       /\ SchemaTypeLower(b.type) \in {"article", "blogposting"}
    THEN b.author_names ELSE <<>>

ItemIsFaq(b) ==
    \/ b.type_list = <<>> /\ b.type # None /\ SchemaTypeLower(b.type) = "faqpage"
    \/ \E i \in DOMAIN b.type_list : SchemaTypeLower(b.type_list[i]) = "faqpage"

\* the 'schemas' element a script contributes
SchemaEntry(tag) ==
    IF tag.kind = "invalid_json" THEN [error |-> "Invalid JSON in schema script"]
    ELSE [toplist |-> tag.toplist, items |-> tag.items]

TagItems(tag) == IF tag.kind = "json" THEN tag.items ELSE <<>>

\* check_schema reporting schema_found only when some script holds usable JSON
CheckSchemaUsableOnly(page) ==
    LET tags == page.ld_json
        raising == {i \in DOMAIN tags : TagRaises(tags[i])}
        first == CHOOSE i \in raising : \A j \in raising : i <= j
        items == Flatten([i \in DOMAIN tags |-> TagItems(tags[i])])
    IN  IF raising # {} THEN Raise(TagCause(tags[first]))
        ELSE [schema_found |-> \E i \in DOMAIN tags : tags[i].kind = "json",
              schemas |-> [i \in DOMAIN tags |-> SchemaEntry(tags[i])],
              types |-> Flatten([i \in DOMAIN items |-> ItemTypes(items[i])]),
              authors |-> Flatten([i \in DOMAIN items |-> ItemAuthors(items[i])]),
              faqpage_found |-> \E i \in DOMAIN items : ItemIsFaq(items[i])]

check_schema(page) ==
    LET tags == page.ld_json
        raising == {i \in DOMAIN tags : TagRaises(tags[i])}
        first == CHOOSE i \in raising : \A j \in raising : i <= j
        items == Flatten([i \in DOMAIN tags |-> TagItems(tags[i])])
    IN  IF raising # {} THEN Raise(TagCause(tags[first]))
        ELSE [schema_found |-> tags # <<>>,
              schemas |-> [i \in DOMAIN tags |-> SchemaEntry(tags[i])],
              types |-> Flatten([i \in DOMAIN items |-> ItemTypes(items[i])]),
              authors |-> Flatten([i \in DOMAIN items |-> ItemAuthors(items[i])]),
              faqpage_found |-> \E i \in DOMAIN items : ItemIsFaq(items[i])]

----------------------------------------------------------------------------
(* image_checker.check_images *)

ListCap == 50

\* page.images: the img elements in document order, each [alt, src] with alt the
\* outcome of the alt heuristics: "missing" (no or blank alt), "weak" (fewer than
\* three words, or the file name), "good"
SrcsOf(images, class) ==
    LET picked == FilterSeq([i \in DOMAIN images |-> IF images[i].alt = class THEN i ELSE 0],
                            DOMAIN images)
    IN  [k \in DOMAIN picked |-> images[picked[k]].src]

check_images(page) ==
    LET images == page.images
        missing == SrcsOf(images, "missing")
        poor == SrcsOf(images, "weak")
        clean == images # <<>> /\ missing = <<>> /\ poor = <<>>
    IN  [total_images |-> Len(images),
         missing_alt |-> Prefix(missing, ListCap),
         poor_alt |-> Prefix(poor, ListCap),
         status |-> IF clean THEN "pass" ELSE IF images # <<>> THEN "warning" ELSE "fail",
         message |->
            IF clean THEN "All " \o ToString(Len(images)) \o " images have descriptive alt text."
            ELSE IF images = <<>> THEN "No images found."
            ELSE IF missing # <<>> THEN ToString(Len(missing)) \o " image(s) missing alt."
            ELSE ToString(Len(poor)) \o " image(s) with weak alt."]

----------------------------------------------------------------------------
(* mobile_checker.check_mobile_responsiveness *)

\* 'width=device-width' in content and 'initial-scale=1' in content
StandardViewport(content) ==
    content \in {"width=device-width, initial-scale=1",
                 "width=device-width, initial-scale=1, viewport-fit=cover"}

\* page.mobile_get_ok: the analyzer's own GET of the URL succeeded with a non-error
\* status; page.viewport: the content attribute of the viewport meta tag of that
\* response, None without the tag or the attribute
check_mobile_responsiveness(page) ==
    IF ~page.mobile_get_ok
    THEN [status |-> "error",
          message |-> "Failed to access the URL for mobile check: request failed"]
    ELSE IF page.viewport = None
    THEN [viewport_meta_tag |-> [found |-> FALSE, content |-> None],
          status |-> "fail",
          message |-> "No viewport meta tag found, which is essential for mobile responsiveness."]
    ELSE IF StandardViewport(page.viewport)
    THEN [viewport_meta_tag |-> [found |-> TRUE, content |-> page.viewport],
          status |-> "pass",
          message |-> "Viewport meta tag with common settings found."]
    ELSE [viewport_meta_tag |-> [found |-> TRUE, content |-> page.viewport],
          status |-> "warning",
          message |-> "Viewport tag found, but content is not a standard mobile configuration."]

----------------------------------------------------------------------------
(* robots_sitemap_checker *)

\* The audited URLs of the model are bare origins, so urljoin(origin, path) is
\* the concatenation.
UrlJoin(origin, path) == origin \o path

\* page.valid_sitemaps / page.invalid_sitemaps: the sitemap URLs answering 200 with
\* well-formed / malformed XML; every other URL answers another status or fails
_validate_sitemap(page, sitemap_url) ==
    IF sitemap_url \in page.valid_sitemaps
    THEN [status |-> "pass", message |-> "Valid sitemap XML", sitemap_url |-> sitemap_url]
    ELSE IF sitemap_url \in page.invalid_sitemaps
    THEN [status |-> "fail", message |-> "Invalid sitemap XML", sitemap_url |-> sitemap_url]
    ELSE EmptyDict

RECURSIVE DropEmpty(_)
\* [o for o in outcomes if o]
DropEmpty(s) ==
    IF s = <<>> THEN <<>>
    ELSE IF DOMAIN Head(s) = {} THEN DropEmpty(Tail(s))
         ELSE <<Head(s)>> \o DropEmpty(Tail(s))

\* page.robots_fetched: fetch_html(robots.txt) returned non-empty text;
\* page.sitemap_lines: the targets of its "Sitemap:" lines, in order
check_robots_and_sitemaps(url, page) ==
    LET robots_url == UrlJoin(url, "/robots.txt")
        sitemap_lines == IF page.robots_fetched THEN page.sitemap_lines ELSE <<>>
        common == <<UrlJoin(url, "/sitemap.xml"), UrlJoin(url, "/sitemap_index.xml")>>
        discovered == Dedupe(sitemap_lines \o common, {})
        validated == DropEmpty([i \in DOMAIN discovered |-> _validate_sitemap(page, discovered[i])])
    IN  [robots |-> [present |-> page.robots_fetched,
                     url |-> IF page.robots_fetched THEN robots_url ELSE None],
         sitemaps |-> [discovered |-> discovered,
                       validated |-> validated,
                       status |-> IF \E i \in DOMAIN validated : validated[i].status = "pass"
                                  THEN "pass"
                                  ELSE IF validated # <<>> THEN "warning" ELSE "fail"]]

----------------------------------------------------------------------------
(* links_checker.check_internal_links *)

BrokenFrom == 400

\* the list taken whole, without the limit
SliceWhole(s, n) == s

\* s[:n] for any int n
PySlice(s, n) == IF n >= 0 THEN Prefix(s, n) ELSE Prefix(s, Max(0, Len(s) + n))

\* the 'broken' list entry of a checked link, or "" when the link works;
\* link_get[link] is the final status code, 0 for a RequestException
BrokenEntry(page, link) ==
    LET code == page.link_get[link]
    IN  IF code = 0 THEN link \o " (request failed)"
        ELSE IF code >= BrokenFrom THEN link \o " (" \o ToString(code) \o ")"
        ELSE ""

RECURSIVE DropBlank(_)
DropBlank(s) ==
    IF s = <<>> THEN <<>>
    ELSE IF Head(s) = "" THEN DropBlank(Tail(s)) ELSE <<Head(s)>> \o DropBlank(Tail(s))

\* page.anchors: the a[href] elements, each [href, internal, in_context] with href
\* already joined to the base URL; page.link_order: the iteration order of the set
\* of internal links
check_internal_links(page, max_links) ==
    LET anchors == page.anchors
        internal_links == {anchors[i].href : i \in {j \in DOMAIN anchors : anchors[j].internal}}
        links_to_check == PySlice(page.link_order, max_links)
        broken == DropBlank([i \in DOMAIN links_to_check |-> BrokenEntry(page, links_to_check[i])])
        contextual_count ==
            Cardinality({anchors[i].href :
                            i \in {j \in DOMAIN anchors : anchors[j].internal /\ anchors[j].in_context}})
        some == links_to_check # <<>>
    IN  [total_internal |-> Cardinality(internal_links),
         checked |-> Len(links_to_check),
         broken |-> broken,
         contextual_links |-> contextual_count,
         status |-> IF some /\ broken = <<>> /\ contextual_count >= 2 THEN "pass"
                    ELSE IF some /\ contextual_count > 0 THEN "warning"
                    ELSE IF ~some \/ contextual_count = 0 THEN "fail" ELSE "warning",
         message |->
            IF broken = <<>> /\ some /\ contextual_count >= 2
            THEN "Checked " \o ToString(Len(links_to_check))
                 \o " internal links; all working. Contextual links: "
                 \o ToString(contextual_count) \o "."
            ELSE IF ~some THEN "No internal links found."
            ELSE IF broken # <<>> THEN ToString(Len(broken)) \o " broken link(s) found."
            ELSE "Only " \o ToString(contextual_count) \o " contextual link(s); need 2+."]

----------------------------------------------------------------------------
(* canonical_checker.check_canonical_and_hreflang *)

\* sorted(set(...)) over the language codes of the model, in code point order
LangOrder == <<"en", "en-US", "enUSA", "eng", "x-default">>

SortedSet(S) == FilterSeq(LangOrder, S)

RECURSIVE ReprItems(_)
ReprItems(s) ==
    IF s = <<>> THEN ""
    ELSE IF Len(s) = 1 THEN "'" \o Head(s) \o "'"
         ELSE "'" \o Head(s) \o "', " \o ReprItems(Tail(s))

\* str(list of str)
Repr(s) == "[" \o ReprItems(s) \o "]"

\* '-' in lang
HasDash(lang) == lang \in {"en-US", "x-default"}

LangLower(lang) == IF lang = "X-Default" THEN "x-default" ELSE lang

InvalidLang(lang) ==
    /\ LangLower(lang) # "x-default"
    /\ ~(Len(lang) \in {2, 5} /\ (Len(lang) = 2 \/ HasDash(lang)))

\* page.canonical_hrefs: the href of each rel=canonical link (None or "" when absent)
CanonicalResult(page) ==
    LET canon_links == page.canonical_hrefs
        hrefs == FilterSeq(canon_links, {h \in Range(canon_links) : Truthy(h)})
    IN  IF canon_links = <<>>
        THEN [found |-> FALSE, url |-> None, multiple |-> FALSE,
              status |-> "fail", message |-> "Canonical not found"]
        ELSE IF hrefs # <<>>
        THEN [found |-> TRUE, url |-> hrefs[1], multiple |-> Len(canon_links) > 1,
              status |-> IF Len(canon_links) > 1 THEN "warning" ELSE "pass",
              message |-> IF Len(canon_links) > 1 THEN "Multiple canonical tags present"
                          ELSE "Canonical present"]
        ELSE [found |-> TRUE, url |-> None, multiple |-> Len(canon_links) > 1,
              status |-> "fail", message |-> "Canonical tag missing href"]

RECURSIVE Duplicates(_, _)
\* the langs met again after a first occurrence
Duplicates(langs, seen_langs) ==
    IF langs = <<>> THEN {}
    ELSE IF Head(langs) \in seen_langs
         THEN {Head(langs)} \cup Duplicates(Tail(langs), seen_langs)
         ELSE Duplicates(Tail(langs), seen_langs \cup {Head(langs)})

\* page.hreflang_links: the rel=alternate links with an hreflang attribute, each
\* [lang, href] with lang stripped and href None or "" when absent
HreflangResult(page) ==
    LET tags == page.hreflang_links
        kept == FilterSeq(tags, {t \in Range(tags) : Truthy(t.href) /\ Truthy(t.lang)})
        langs == [i \in DOMAIN kept |-> kept[i].lang]
        duplicates == SortedSet(Duplicates(langs, {}))
        invalid == SortedSet({l \in Range(langs) : InvalidLang(l)})
        dupmsg == "Duplicate hreflang entries: " \o Repr(duplicates)
        invmsg == "Invalid hreflang codes: " \o Repr(invalid)
    IN  [entries |-> [i \in DOMAIN kept |-> [lang |-> kept[i].lang, url |-> kept[i].href]],
         duplicates |-> duplicates,
         invalid |-> invalid,
         status |-> IF duplicates # <<>> \/ invalid # <<>> THEN "warning" ELSE "pass",
         message |-> IF duplicates # <<>> /\ invalid # <<>> THEN dupmsg \o "; " \o invmsg
                     ELSE IF duplicates # <<>> THEN dupmsg
                     ELSE IF invalid # <<>> THEN invmsg
                     ELSE "Hreflang tags look OK"]

check_canonical_and_hreflang(page) ==
    [canonical |-> CanonicalResult(page), hreflang |-> HreflangResult(page)]

----------------------------------------------------------------------------
(* indexability_checker.check_indexability *)

\* 'noindex' among the comma-separated, stripped, lower-cased directives
HasNoindex(value) == value \in {"noindex", "noindex, nofollow", "NOINDEX"}

\* page.meta_robots: stripped content of <meta name=robots>, None when absent or
\* empty; page.head_ok: the HEAD request did not fail; page.x_robots_tag: its
\* X-Robots-Tag header, None when absent or empty
check_indexability(page) ==
    LET meta_no == page.meta_robots # None /\ HasNoindex(page.meta_robots)
        header == IF page.head_ok THEN page.x_robots_tag ELSE None
        head_no == header # None /\ HasNoindex(header)
    IN  [meta_robots |-> page.meta_robots,
         x_robots_tag |-> header,
         status |-> IF meta_no \/ head_no THEN "fail" ELSE "pass",
         message |-> IF meta_no /\ head_no
                     THEN "Meta robots contains noindex.X-Robots-Tag contains noindex."
                     ELSE IF meta_no THEN "Meta robots contains noindex."
                     ELSE IF head_no THEN "X-Robots-Tag contains noindex."
                     ELSE "Indexable (no noindex directives found)."]

----------------------------------------------------------------------------
(* faq_checker.check_faq *)

\* page.faq_sections: for each distinct element whose class or id contains 'faq',
\* the number of h3 elements inside it; without such elements every h3 counts
check_faq(page) ==
    LET h3_count == IF page.faq_sections # <<>> THEN SeqSum(page.faq_sections)
                    ELSE Len(FilterSeq(page.headings, {3}))
    IN  [h3_count |-> h3_count,
         status |-> IF h3_count > 0 THEN "pass" ELSE "fail",
         message |-> IF h3_count > 0 THEN "H3 FAQ headings found."
                     ELSE "No H3 headings detected for FAQ."]

----------------------------------------------------------------------------
(* seo_checker.run_all_checks: the pipeline executor *)

\* the analyzer calls with faq moved before indexability
AnalyzersFaqEarly ==
    <<"title_meta", "headings", "schema", "mobile_responsiveness", "robots_sitemaps",
      "internal_links", "images", "canonical_hreflang", "faq", "indexability">>

\* the keys of the results dict, in the order the analyzers run
Analyzers == <<"title_meta", "headings", "schema", "mobile_responsiveness",
               "robots_sitemaps", "internal_links", "images", "canonical_hreflang",
               "indexability", "faq">>

\* the labels handed to _spin_step
Labels == <<"Title & Meta", "Headings", "Schema", "Mobile", "Robots & Sitemaps",
            "Internal Links", "Images", "Canonical & Hreflang", "Indexability", "FAQ">>

CrossCheck == "author_match"

FetchErrorMsg == "Failed to access the URL. Consider setting SCRAPERAPI_KEY for tougher sites."

\* the cause of a fault that does not come from the page data
InjectedCause == "maximum recursion depth exceeded"

\* the call the i-th lambda makes
AnalyzerCall(i, url, page, a) ==
    CASE i = 1 -> check_title_and_meta(page, a.keyword)
      [] i = 2 -> check_headings(page)
      [] i = 3 -> check_schema(page)
      [] i = 4 -> check_mobile_responsiveness(page)
      [] i = 5 -> check_robots_and_sitemaps(url, page)
      [] i = 6 -> check_internal_links(page, a.max_links)
      [] i = 7 -> check_images(page)
      [] i = 8 -> check_canonical_and_hreflang(page)
      [] i = 9 -> check_indexability(page)
      [] i = 10 -> check_faq(page)

\* _spin_step with the label left out of the message
SpinStepNoLabel(label, out) ==
    IF IsRaise(out) THEN [status |-> "error", message |-> out.cause] ELSE out

\* try: out = fn() ... except Exception as e: the error record
_spin_step(label, out) ==
    IF IsRaise(out)
    THEN [status |-> "error", message |-> label \o " error: " \o out.cause]
    ELSE out

\* [a.strip() for a in (results.get('schema', {}).get('authors') or [])]
SchemaAuthors(res) ==
    LET sc == GetDict(res, "schema")
        authors == IF "authors" \in DOMAIN sc THEN sc.authors ELSE <<>>
    IN  [i \in DOMAIN authors |-> Strip(authors[i])]

\* (results.get('title_meta', {}).get('author', {}) or {}).get('content')
TitleMetaAuthor(res) == Get(GetDict(GetDict(res, "title_meta"), "author"), "content")

\* _author_match writing a status outside the scoring vocabulary on a match
AuthorMatchOddStatus(res) ==
    LET tm_author == TitleMetaAuthor(res)
        sc_authors == SchemaAuthors(res)
    IN  IF Truthy(tm_author) /\ sc_authors # <<>>
        THEN [res EXCEPT !.title_meta.author =
                   [status |-> IF \E i \in DOMAIN sc_authors :
                                      Lower(tm_author) = Lower(sc_authors[i])
                               THEN "match" ELSE "warning"] @@ @]
        ELSE res

\* _author_match comparing the names without lower()
AuthorMatchCaseSensitive(res) ==
    LET tm_author == TitleMetaAuthor(res)
        sc_authors == SchemaAuthors(res)
    IN  IF Truthy(tm_author) /\ sc_authors # <<>>
        THEN IF \E i \in DOMAIN sc_authors : tm_author = sc_authors[i]
             THEN [res EXCEPT !.title_meta.author =
                        [status |-> "ok", message |-> "Author matches schema."] @@ @]
             ELSE [res EXCEPT !.title_meta.author =
                        [status |-> "warning",
                         message |-> "Author meta does not match schema author(s)."] @@ @]
        ELSE res

\* _author_match replacing a mismatching declared author by the first schema author
AuthorMatchAdopt(res) ==
    LET tm_author == TitleMetaAuthor(res)
        sc_authors == SchemaAuthors(res)
    IN  IF Truthy(tm_author) /\ sc_authors # <<>>
        THEN IF \E i \in DOMAIN sc_authors : Lower(tm_author) = Lower(sc_authors[i])
             THEN [res EXCEPT !.title_meta.author =
                        [status |-> "ok", message |-> "Author matches schema."] @@ @]
             ELSE [res EXCEPT !.title_meta.author =
                        [status |-> "warning", content |-> sc_authors[1],
                         message |-> "Author meta does not match schema author(s)."] @@ @]
        ELSE res

\* _author_match whose return value is stored in the results dict
AuthorMatchStored(res) ==
    LET tm_author == TitleMetaAuthor(res)
        sc_authors == SchemaAuthors(res)
        revised ==
            IF Truthy(tm_author) /\ sc_authors # <<>>
            THEN IF \E i \in DOMAIN sc_authors : Lower(tm_author) = Lower(sc_authors[i])
                 THEN [res EXCEPT !.title_meta.author =
                            [status |-> "ok", message |-> "Author matches schema."] @@ @]
                 ELSE [res EXCEPT !.title_meta.author =
                            [status |-> "warning",
                             message |-> "Author meta does not match schema author(s)."] @@ @]
            ELSE res
    IN  ("author_match" :> [status |-> "pass"]) @@ revised

\* the body of _author_match applied to the results dict
_author_match(res) ==
    LET tm_author == TitleMetaAuthor(res)
        sc_authors == SchemaAuthors(res)
    IN  IF Truthy(tm_author) /\ sc_authors # <<>>
        THEN IF \E i \in DOMAIN sc_authors : Lower(tm_author) = Lower(sc_authors[i])
             THEN [res EXCEPT !.title_meta.author =
                        [status |-> "ok", message |-> "Author matches schema."] @@ @]
             ELSE [res EXCEPT !.title_meta.author =
                        [status |-> "warning",
                         message |-> "Author meta does not match schema author(s)."] @@ @]
        ELSE res

\* the store skipped for an analyzer that faulted
StoreUnlessError(res, name, entry) ==
    IF Get(entry, "status") = "error" /\ DOMAIN entry = {"status", "message"} THEN res
    ELSE (name :> entry) @@ res

\* results[name] = entry
StoreEntry(res, name, entry) == (name :> entry) @@ res

\* run_all_checks as a function of what the URL serves (w) and of the set F of
\* analyzers (and cross-check) that raise for a reason other than the page data
AnalyzerEntry(i, url, w, a, F) ==
    _spin_step(Labels[i], IF Analyzers[i] \in F THEN Raise(InjectedCause)
                          ELSE AnalyzerCall(i, url, w.page, a))

RECURSIVE Collected(_, _, _, _, _)
\* the results dict after the first n analyzers
Collected(n, url, w, a, F) ==
    IF n = 0 THEN EmptyDict
    ELSE StoreEntry(Collected(n - 1, url, w, a, F), Analyzers[n], AnalyzerEntry(n, url, w, a, F))

run_all_checks(url, w, a, F) ==
    IF IsRaise(fetch_html(w.answers, a.use_scraperapi))
    THEN fetch_html(w.answers, a.use_scraperapi)
    ELSE IF ~Truthy(fetch_html(w.answers, a.use_scraperapi).value)
    THEN [error |-> FetchErrorMsg]
    ELSE IF CrossCheck \in F THEN Collected(Len(Analyzers), url, w, a, F)
    ELSE _author_match(Collected(Len(Analyzers), url, w, a, F))

----------------------------------------------------------------------------
(* seo_checker.__main__: score aggregation                                 *)
(* score is kept in half points (score2 = 2 * score); percent and threshold *)
(* are kept in hundredths of a percent.                                     *)

StatusLower(s) ==
    CASE s = "PASS" -> "pass"
      [] s = "OK" -> "ok"
      [] s = "Warning" -> "warning"
      [] OTHER -> s

\* _points_from_status counting a pass twice
PointsDoubledPass(status) ==
    IF ~Truthy(status) THEN 0
    ELSE IF StatusLower(status) \in {"pass", "ok", "found"} THEN 4
    ELSE IF StatusLower(status) \in {"warning"} THEN 1
    ELSE 0

\* _points_from_status giving half a point to every status it does not know
PointsUnknownHalf(status) ==
    IF ~Truthy(status) THEN 0
    ELSE IF StatusLower(status) \in {"pass", "ok", "found"} THEN 2
    ELSE 1

\* _points_from_status, in half points
_points_from_status(status) ==
    IF ~Truthy(status) THEN 0
    ELSE IF StatusLower(status) \in {"pass", "ok", "found"} THEN 2
    ELSE IF StatusLower(status) \in {"warning"} THEN 1
    ELSE 0

\* d.get(k) is truthy, for a bool-valued key
IsTrue(d, k) == k \in DOMAIN d /\ d[k] = TRUE

\* d.get(a, {}).get('status')
SubStatus(d, a) == Get(GetDict(d, a), "status")

\* the fourteen additions to score, in half points
ScoreLines(all_results) ==
    LET tm == GetDict(all_results, "title_meta")
        hd == GetDict(all_results, "headings")
        sc == GetDict(all_results, "schema")
        mb == GetDict(all_results, "mobile_responsiveness")
        ix_all == GetDict(all_results, "indexability")
        rs == GetDict(all_results, "robots_sitemaps")
        il == GetDict(all_results, "internal_links")
        im == GetDict(all_results, "images")
        ch == GetDict(all_results, "canonical_hreflang")
    IN  <<_points_from_status(SubStatus(tm, "title")),
          _points_from_status(SubStatus(tm, "meta_description")),
          _points_from_status(SubStatus(tm, "author")),
          _points_from_status(Get(hd, "h1_status")),
          _points_from_status(Get(hd, "h_hierarchy")),
          IF IsTrue(sc, "schema_found") THEN 2 ELSE 0,
          _points_from_status(Get(mb, "status")),
          _points_from_status(Get(ix_all, "status")),
          IF IsTrue(GetDict(rs, "robots"), "present") THEN 2 ELSE 0,
          _points_from_status(SubStatus(rs, "sitemaps")),
          _points_from_status(Get(il, "status")),
          _points_from_status(Get(im, "status")),
          _points_from_status(SubStatus(ch, "canonical")),
          _points_from_status(SubStatus(ch, "hreflang"))>>

\* max_points with the images line counted only on a page that has images
MaxPointsSkippingNoImages(all_results) ==
    <<3, 2, 1, 1, 1, 1, 1, 1,
      IF "total_images" \in DOMAIN GetDict(all_results, "images")
         /\ GetDict(all_results, "images").total_images = 0 THEN 0 ELSE 1,
      2>>

\* the increments of max_points: title & meta, headings, schema, mobile,
\* indexability, robots, sitemaps, internal links, images, canonical + hreflang
MaxPointLines(all_results) == <<3, 2, 1, 1, 1, 1, 1, 1, 1, 2>>

\* round(x, 1) of x = num / den percent, in hundredths of a percent
Round1(num, den) == 10 * ((2 * 10 * num + den) \div (2 * den))

compute_score(all_results, threshold) ==
    LET score2 == SeqSum(ScoreLines(all_results))
        max_points == SeqSum(MaxPointLines(all_results))
        \* percent = score / max_points * 100.0 = 100 * score2 / (2 * max_points)
        pnum == IF max_points # 0 THEN 100 * score2 ELSE 0
        pden == IF max_points # 0 THEN 2 * max_points ELSE 1
    IN  [score2 |-> score2,
         max |-> max_points,
         percent |-> Round1(pnum, pden),
         threshold |-> threshold,
         \* percent >= args.threshold on the unrounded percent
         result |-> IF 100 * pnum >= threshold * pden THEN "PASS" ELSE "FAIL"]

----------------------------------------------------------------------------
(* seo_checker.__main__: per-section percentages, kept exact as fractions *)

RECURSIVE GCD(_, _)
GCD(a, b) == IF b = 0 THEN a ELSE GCD(b, a % b)

\* the float num / den, as a fraction in lowest terms (num >= 0, den > 0)
Frac(num, den) == [num |-> num \div GCD(num, den), den |-> den \div GCD(num, den)]

\* _status_to_percent accepting "yes" as the module-level function of that name does
StatusToPercentWithYes(st) ==
    IF ~Truthy(st) THEN 0
    ELSE IF StatusLower(st) \in {"pass", "ok", "found", "yes"} THEN 100
    ELSE IF StatusLower(st) \in {"warning"} THEN 50
    ELSE 0

\* _status_to_percent
_status_to_percent(st) ==
    IF ~Truthy(st) THEN 0
    ELSE IF StatusLower(st) \in {"pass", "ok", "found"} THEN 100
    ELSE IF StatusLower(st) \in {"warning"} THEN 50
    ELSE 0

\* d.get(k) or 0, for an int-valued key
IntOr0(d, k) == IF k \in DOMAIN d THEN d[k] ELSE 0

\* len(d.get(k) or [])
LenOr0(d, k) == IF k \in DOMAIN d THEN Len(d[k]) ELSE 0

PoorAltPenaltyCap == 25

InternalLinksPercent(il) ==
    LET checked == Max(1, IntOr0(il, "checked"))
        broken_count == LenOr0(il, "broken")
    IN  IF IntOr0(il, "checked") > 0
        THEN Frac(Max(0, 100 * (checked - broken_count)), checked)
        ELSE Frac(0, 1)

ImagesPercent(im) ==
    LET total_imgs == IntOr0(im, "total_images")
        missing_alt == LenOr0(im, "missing_alt")
        poor_alt == LenOr0(im, "poor_alt")
    IN  IF total_imgs > 0
        \* base_pct - penalty, both over the denominator total_imgs
        THEN Frac(Max(0, 100 * (total_imgs - missing_alt)
                         - Min(PoorAltPenaltyCap * total_imgs, 100 * poor_alt)),
                  total_imgs)
        ELSE Frac(0, 1)

SectionScores(res) ==
    LET tm == GetDict(res, "title_meta")
        hd == GetDict(res, "headings")
        sc == GetDict(res, "schema")
        mb == GetDict(res, "mobile_responsiveness")
        rs == GetDict(res, "robots_sitemaps")
        il == GetDict(res, "internal_links")
        im == GetDict(res, "images")
        ix == GetDict(res, "indexability")
        ch == GetDict(res, "canonical_hreflang")
    IN  [title_meta |-> Frac(_status_to_percent(SubStatus(tm, "title"))
                             + _status_to_percent(SubStatus(tm, "meta_description"))
                             + _status_to_percent(SubStatus(tm, "author")), 3),
         headings |-> Frac(_status_to_percent(Get(hd, "h1_status"))
                           + _status_to_percent(Get(hd, "h_hierarchy")), 2),
         schema |-> Frac(IF IsTrue(sc, "schema_found") THEN 100 ELSE 0, 1),
         mobile |-> Frac(_status_to_percent(Get(mb, "status")), 1),
         robots |-> Frac(IF IsTrue(GetDict(rs, "robots"), "present") THEN 100 ELSE 0, 1),
         sitemaps |-> Frac(_status_to_percent(SubStatus(rs, "sitemaps")), 1),
         internal_links |-> InternalLinksPercent(il),
         images |-> ImagesPercent(im),
         indexability |-> Frac(_status_to_percent(Get(ix, "status")), 1),
         canonical |-> Frac(_status_to_percent(SubStatus(ch, "canonical")), 1),
         hreflang |-> Frac(_status_to_percent(SubStatus(ch, "hreflang")), 1)]

\* the loop body after run_all_checks: res with its two derived keys
Scored(res, threshold) ==
    res @@ [_score_summary |-> compute_score(res, threshold),
            _section_scores |-> SectionScores(res)]

----------------------------------------------------------------------------
(* seo_checker.__main__: outputs, history, exit code *)

Timestamp == "2025-01-01T00:00:00Z"

CsvChecks == <<"title", "meta_description", "author", "h1", "schema", "mobile", "robots",
               "sitemaps", "internal_links", "images", "indexability", "faq",
               "canonical", "hreflang">>

\* the rows of the CSV file: the header, then one row per (url, check)
CsvRows(outs) ==
    <<[url |-> "url", check |-> "check"]>>
    \o Flatten([i \in DOMAIN outs |->
                    [k \in DOMAIN CsvChecks |-> [url |-> outs[i].url, check |-> CsvChecks[k]]]])

\* entries for the fetched URLs only
HistoryEntriesFetched(outs) ==
    LET ok == SelectSeq(outs, LAMBDA o : "error" \notin DOMAIN o.results)
    IN  [i \in DOMAIN ok |->
            [timestamp |-> Timestamp,
             url |-> ok[i].url,
             score_summary |-> GetDict(ok[i].results, "_score_summary"),
             section_scores |-> GetDict(ok[i].results, "_section_scores")]]

\* the history_entries list
HistoryEntries(outs) ==
    [i \in DOMAIN outs |->
        [timestamp |-> Timestamp,
         url |-> outs[i].url,
         score_summary |-> GetDict(outs[i].results, "_score_summary"),
         section_scores |-> GetDict(outs[i].results, "_section_scores")]]

\* json.dumps(e, ensure_ascii=False) + "\n": one line of the file, holding a JSON
\* object. The other lines a history file can hold are [kind |-> "invalid"] (text
\* that is not JSON, a blank or cut-off line included) and [kind |-> "array"],
\* [kind |-> "null"] (JSON, but no object).
Dumps(e) == [kind |-> "object", value |-> e]

\* the file opened with mode "w" in place of "a"
AppendTruncating(lines, entries) == [i \in DOMAIN entries |-> Dumps(entries[i])]

\* _append_history: one line per entry, appended
_append_history(lines, entries) == lines \o [i \in DOMAIN entries |-> Dumps(entries[i])]

\* json.loads(line) raises JSONDecodeError
LoadsRaises(line) == line.kind = "invalid"

\* json.loads(line), for a line that is JSON
Loads(line) ==
    IF line.kind = "object" THEN [isdict |-> TRUE, value |-> line.value]
    ELSE [isdict |-> FALSE, value |-> EmptyDict]

\* s[-n:] for any int n: the last n items for n > 0, the whole list for n = 0,
\* the list without its first -n items for n < 0
PyTail(s, n) ==
    IF n > 0 THEN SubSeq(s, Max(1, Len(s) - n + 1), Len(s))
    ELSE IF n = 0 THEN s
    ELSE SubSeq(s, Min(Len(s), 0 - n) + 1, Len(s))

\* dict.get(key, default)
GetOr(d, k, default) == IF k \in DOMAIN d THEN d[k] ELSE default

\* a URL of more than 60 and fewer than 80 characters
UrlLong == "https://long.example/a-path-that-is-long-enough-to-be-cut-in-a-table"

\* s[:n], on the texts used
Cut(s, n) ==
    IF s = UrlLong /\ n = 59 THEN "https://long.example/a-path-that-is-long-enough-to-be-cut-i"
    ELSE s

\* _truncate; "..." stands for the one-character ellipsis U+2026
_truncate(value, limit) ==
    IF Len(value) <= limit THEN value ELSE Cut(value, limit - 1) \o "..."

\* num/den (num >= 0, den > 0) rounded to an integer, ties to even, as format() does
RoundHalfEven(num, den) ==
    LET q == num \div den
        r == num % den
    IN  IF 2 * r > den THEN q + 1
        ELSE IF 2 * r = den THEN q + (q % 2)
        ELSE q

\* f"{percent:.1f}%", percent in hundredths
Fmt1(percent) ==
    LET tenths == RoundHalfEven(percent, 10)
    IN  ToString(tenths \div 10) \o "." \o ToString(tenths % 10) \o "%"

\* f"{value:.0f}%", value a fraction
Fmt0(value) == ToString(RoundHalfEven(value.num, value.den)) \o "%"

\* a row of the "History (most recent)" table
HistoryRow(it) ==
    LET summ == GetOr(it, "score_summary", EmptyDict)
    IN  [timestamp |-> GetOr(it, "timestamp", ""),
         url |-> _truncate(GetOr(it, "url", ""), 80),
         percent |-> Fmt1(GetOr(summ, "percent", 0)),
         result |-> GetOr(summ, "result", "")]

SectionColumns ==
    <<"title_meta", "headings", "schema", "mobile", "robots", "sitemaps", "internal_links",
      "images", "indexability", "canonical", "hreflang">>

\* a row of the "History Section Scores" table
SectionRow(it) ==
    LET secs == GetOr(it, "section_scores", EmptyDict)
    IN  [timestamp |-> GetOr(it, "timestamp", ""),
         url |-> _truncate(GetOr(it, "url", ""), 60),
         percents |-> [c \in DOMAIN SectionColumns |->
                          Fmt0(GetOr(secs, SectionColumns[c], Frac(0, 1)))]]

HasSections(item) == GetOr(item.value, "section_scores", EmptyDict) # EmptyDict

\* _show_history on a file of these lines: the two tables printed, or raised when
\* an exception leaves the function (it.get on a value that is no dict). A file
\* that does not exist reads as no lines; the notice printed instead of the empty
\* table is not modelled.
_show_history(lines, limit) ==
    LET tail == PyTail(lines, limit)
        parsed == SelectSeq(tail, LAMBDA l : ~LoadsRaises(l))
        items == [i \in DOMAIN parsed |-> Loads(parsed[i])]
        with_secs == SelectSeq(items, HasSections)
    IN  IF \E i \in DOMAIN items : ~items[i].isdict
        THEN [raised |-> TRUE, rows |-> <<>>, sec_rows |-> <<>>]
        ELSE [raised |-> FALSE,
              rows |-> [i \in DOMAIN items |-> HistoryRow(items[i].value)],
              sec_rows |-> [i \in DOMAIN with_secs |-> SectionRow(with_secs[i].value)]]

\* the fetch test also taking a faulted FAQ entry for a fetch error
FetchOrFaqError(item) ==
    \/ Truthy(Get(item.results, "error"))
    \/ Get(GetDict(item.results, "faq"), "status") = "error"

\* item['results'].get('error') is truthy
HasFetchError(item) == Truthy(Get(item.results, "error"))

\* item['results'].get('_score_summary', {}).get('percent', 0.0) < args.threshold
BelowThreshold(item, threshold) ==
    LET summ == GetDict(item.results, "_score_summary")
    IN  IntOr0(summ, "percent") < threshold

\* the exit code with the two tests in the other order
ExitCodeThresholdFirst(outs, threshold) ==
    IF \E i \in DOMAIN outs : BelowThreshold(outs[i], threshold) THEN 1
    ELSE IF \E i \in DOMAIN outs : HasFetchError(outs[i]) THEN 2
    ELSE 0

ExitCode(outs, threshold) ==
    IF \E i \in DOMAIN outs : HasFetchError(outs[i]) THEN 2
    ELSE IF \E i \in DOMAIN outs : BelowThreshold(outs[i], threshold) THEN 1
    ELSE 0

----------------------------------------------------------------------------
(* Inputs: the pages, sites and command lines the model runs on *)

UrlA == "https://a.example"
UrlB == "https://b.example"
UrlC == "https://c.example"
UrlD == "https://d.example"

\* bounds
MaxUrls == 3
MaxHeadings == 3
MaxImages == 3
MaxTags == 2

\* exit_code before sys.exit
Running == -1

\* nothing printed by _show_history
NothingShown == [raised |-> FALSE, rows |-> <<>>, sec_rows |-> <<>>]

DefaultThreshold == 8000
DefaultMaxLinks == 25

ArgsDefault ==
    [threshold |-> DefaultThreshold, no_history |-> FALSE, keyword |-> None,
     max_links |-> DefaultMaxLinks, output_json |-> FALSE, output_csv |-> FALSE,
     show_history |-> <<>>, use_scraperapi |-> FALSE]

\* all sequences over S of length 0..n
RECURSIVE SeqsUpTo(_, _)
SeqsUpTo(S, n) ==
    IF n = 0 THEN {<<>>}
    ELSE LET shorter == SeqsUpTo(S, n - 1)
         IN  shorter \cup {Append(q, x) : q \in shorter, x \in S}

ObjectItem(type, names) ==
    [isdict |-> TRUE, type |-> type, type_list |-> <<>>, author_names |-> names]

JsonTag(items) == [kind |-> "json", toplist |-> Len(items) # 1, items |-> items]

ArticleTag(name) == JsonTag(<<ObjectItem("Article", <<name>>)>>)

StdViewport == "width=device-width, initial-scale=1"

Link(u, path, ctx) == [href |-> UrlJoin(u, path), internal |-> TRUE, in_context |-> ctx]

\* a page on which every rubric line scores its full points
GoodPage(u) ==
    [title |-> Title50, meta_description |-> Desc120,
     author_meta |-> "Jane Doe", og_author |-> None, byl |-> None,
     headings |-> <<1, 2, 3>>,
     ld_json |-> <<ArticleTag("Jane Doe")>>,
     images |-> <<[alt |-> "good", src |-> "/hero.png"]>>,
     mobile_get_ok |-> TRUE, viewport |-> StdViewport,
     robots_fetched |-> TRUE, sitemap_lines |-> <<>>,
     valid_sitemaps |-> {UrlJoin(u, "/sitemap.xml"), UrlJoin(u, "/sitemap_index.xml")},
     invalid_sitemaps |-> {},
     anchors |-> <<Link(u, "/about", TRUE), Link(u, "/blog", TRUE)>>,
     link_order |-> <<UrlJoin(u, "/about"), UrlJoin(u, "/blog")>>,
     link_get |-> (UrlJoin(u, "/about") :> 200 @@ UrlJoin(u, "/blog") :> 200),
     canonical_hrefs |-> <<UrlJoin(u, "/")>>,
     hreflang_links |-> <<[lang |-> "en", href |-> UrlJoin(u, "/en")]>>,
     meta_robots |-> None, head_ok |-> TRUE, x_robots_tag |-> None,
     faq_sections |-> <<>>]

\* a page with none of the features the analyzers look for
BarePage(u) ==
    [title |-> None, meta_description |-> None,
     author_meta |-> None, og_author |-> None, byl |-> None,
     headings |-> <<>>,
     ld_json |-> <<>>,
     images |-> <<>>,
     mobile_get_ok |-> TRUE, viewport |-> None,
     robots_fetched |-> FALSE, sitemap_lines |-> <<>>,
     valid_sitemaps |-> {}, invalid_sitemaps |-> {},
     anchors |-> <<>>, link_order |-> <<>>, link_get |-> <<>>,
     canonical_hrefs |-> <<>>,
     hreflang_links |-> <<>>,
     meta_robots |-> None, head_ok |-> TRUE, x_robots_tag |-> None,
     faq_sections |-> <<>>]

TitleVals == {None, "", Title49, Title50, Title50Kw, Title60, Title61}
DescVals == {None, "", Desc119, Desc120, Desc120Kw, Desc155, Desc156}
AuthorVals == {None, "", "  ", "Jane Doe", "JANE DOE", " Jane Doe ", "Bob Roe"}
HeadingVals == SeqsUpTo({1, 2, 3}, MaxHeadings)

TagVals ==
    {[kind |-> "invalid_json"], [kind |-> "empty"],
     ArticleTag("Jane Doe"), ArticleTag("Bob Roe"), ArticleTag(""),
     JsonTag(<<ObjectItem("BlogPosting", <<" Jane Doe ", "Bob Roe">>), ObjectItem("FAQPage", <<>>)>>),
     JsonTag(<<[isdict |-> TRUE, type |-> None, type_list |-> <<"Article", "FAQPage">>,
                author_names |-> <<"Jane Doe">>]>>),
     JsonTag(<<ObjectItem("WebSite", <<"Jane Doe">>)>>),
     JsonTag(<<[isdict |-> FALSE, type |-> None, type_list |-> <<>>, author_names |-> <<>>]>>),
     JsonTag(<<>>)}

SchemaVals == SeqsUpTo(TagVals, MaxTags)

ImageVals ==
    {[i \in DOMAIN q |-> [alt |-> q[i], src |-> "/img" \o ToString(i) \o ".png"]] :
        q \in SeqsUpTo({"missing", "weak", "good"}, MaxImages)}

MobileVals ==
    {[mobile_get_ok |-> FALSE, viewport |-> None]}
    \cup {[mobile_get_ok |-> TRUE, viewport |-> v] :
            v \in {None, StdViewport, "width=600", "width=device-width"}}

SitemapPaths == {"/sitemap.xml", "/sitemap_index.xml", "/custom.xml"}

RobotsVals(u) ==
    LET all == {UrlJoin(u, q) : q \in SitemapPaths}
    IN  {[robots_fetched |-> f, sitemap_lines |-> l, valid_sitemaps |-> v, invalid_sitemaps |-> w] :
            f \in BOOLEAN,
            l \in {<<>>, <<UrlJoin(u, "/custom.xml")>>,
                   <<UrlJoin(u, "/sitemap.xml"), UrlJoin(u, "/custom.xml")>>},
            v \in SUBSET all,
            w \in {x \in SUBSET all : Cardinality(x) <= 1}}

\* the sites' answers to the link checks: every link works, /about answers 404,
\* /about answers 399, /blog fails, both are broken
LinkGetVals(u) ==
    LET a == UrlJoin(u, "/about")
        b == UrlJoin(u, "/blog")
    IN  {(a :> 200 @@ b :> 200), (a :> 404 @@ b :> 200), (a :> 399 @@ b :> 200),
         (a :> 200 @@ b :> 0), (a :> 400 @@ b :> 500)}

AnchorVals(u) ==
    LET a == UrlJoin(u, "/about")
        b == UrlJoin(u, "/blog")
        ext == [href |-> "https://other.example/", internal |-> FALSE, in_context |-> TRUE]
    IN  {[anchors |-> <<>>, link_order |-> <<>>],
         [anchors |-> <<ext>>, link_order |-> <<>>],
         [anchors |-> <<Link(u, "/about", TRUE)>>, link_order |-> <<a>>],
         [anchors |-> <<Link(u, "/about", FALSE), Link(u, "/about", FALSE)>>, link_order |-> <<a>>],
         [anchors |-> <<Link(u, "/about", TRUE), Link(u, "/blog", TRUE)>>, link_order |-> <<a, b>>],
         [anchors |-> <<Link(u, "/about", TRUE), Link(u, "/blog", TRUE)>>, link_order |-> <<b, a>>],
         [anchors |-> <<Link(u, "/about", TRUE), ext, Link(u, "/blog", FALSE)>>, link_order |-> <<a, b>>],
         [anchors |-> <<Link(u, "/about", FALSE), Link(u, "/blog", FALSE)>>, link_order |-> <<b, a>>]}

LinkVals(u) ==
    {[anchors |-> c.anchors, link_order |-> c.link_order, link_get |-> g] :
        c \in AnchorVals(u), g \in LinkGetVals(u)}

MaxLinksVals == {DefaultMaxLinks, 0, 1, 2, -1}

CanonicalVals(u) == SeqsUpTo({None, "", UrlJoin(u, "/"), UrlJoin(u, "/home")}, 2)

HreflangVals(u) ==
    SeqsUpTo({[lang |-> l, href |-> UrlJoin(u, "/x")] :
                    l \in {"en", "en-US", "enUSA", "eng", "x-default", ""}}
             \cup {[lang |-> "en", href |-> None]}, 2)

IndexVals ==
    {[meta_robots |-> m, head_ok |-> h, x_robots_tag |-> x] :
        m \in {None, "noindex", "index, follow", "noindex, nofollow", "NOINDEX"},
        h \in BOOLEAN,
        x \in {None, "noindex", "nofollow"}}

FaqVals == {<<>>, <<0>>, <<2>>, <<0, 1>>}

\* every page that differs from base in the features one analyzer reads
Variants(base, u) ==
    {[base EXCEPT !.title = v] : v \in TitleVals}
    \cup {[base EXCEPT !.meta_description = v] : v \in DescVals}
    \cup {[base EXCEPT !.author_meta = v] : v \in AuthorVals}
    \cup {[base EXCEPT !.author_meta = None, !.og_author = v] : v \in AuthorVals}
    \cup {[base EXCEPT !.author_meta = None, !.og_author = None, !.byl = v] : v \in AuthorVals}
    \cup {[base EXCEPT !.headings = v] : v \in HeadingVals}
    \cup {[base EXCEPT !.ld_json = v] : v \in SchemaVals}
    \cup {[base EXCEPT !.images = v] : v \in ImageVals}
    \cup {[base EXCEPT !.mobile_get_ok = v.mobile_get_ok, !.viewport = v.viewport] : v \in MobileVals}
    \cup {[base EXCEPT !.robots_fetched = v.robots_fetched, !.sitemap_lines = v.sitemap_lines,
                       !.valid_sitemaps = v.valid_sitemaps,
                       !.invalid_sitemaps = v.invalid_sitemaps \ v.valid_sitemaps] :
            v \in RobotsVals(u)}
    \cup {[base EXCEPT !.anchors = v.anchors, !.link_order = v.link_order, !.link_get = v.link_get] :
            v \in LinkVals(u)}
    \cup {[base EXCEPT !.canonical_hrefs = v] : v \in CanonicalVals(u)}
    \cup {[base EXCEPT !.hreflang_links = v] : v \in HreflangVals(u)}
    \cup {[base EXCEPT !.meta_robots = v.meta_robots, !.head_ok = v.head_ok,
                       !.x_robots_tag = v.x_robots_tag] : v \in IndexVals}
    \cup {[base EXCEPT !.faq_sections = v] : v \in FaqVals}

\* the lowest-scoring page: nothing found, noindex, duplicate hreflang
LowPage(u) ==
    [BarePage(u) EXCEPT !.meta_robots = "noindex",
                        !.hreflang_links = <<[lang |-> "en", href |-> UrlJoin(u, "/en")],
                                             [lang |-> "en", href |-> UrlJoin(u, "/en2")]>>]

\* the rubric lines a page can be turned up on, one knob each
KnobNames ==
    <<"title", "meta_description", "author", "headings", "schema", "viewport", "indexable",
      "robots", "sitemaps", "internal_links", "images", "canonical", "hreflang">>

NKnobs == Len(KnobNames)

\* page p with rubric knob k turned to its full or its half score
Knob(k, full, p, u) ==
    LET g == GoodPage(u)
    IN  CASE k = 1 -> [p EXCEPT !.title = IF full THEN Title50 ELSE Title49]
          [] k = 2 -> [p EXCEPT !.meta_description = IF full THEN Desc120 ELSE Desc119]
          [] k = 3 -> [p EXCEPT !.author_meta = "Jane Doe"]
          [] k = 4 -> [p EXCEPT !.headings = IF full THEN <<1>> ELSE <<2, 4>>]
          [] k = 5 -> [p EXCEPT !.ld_json = IF full THEN <<ArticleTag("Jane Doe")>>
                                            ELSE <<ArticleTag("Bob Roe")>>]
          [] k = 6 -> [p EXCEPT !.viewport = IF full THEN StdViewport ELSE "width=600"]
          [] k = 7 -> [p EXCEPT !.meta_robots = None]
          [] k = 8 -> [p EXCEPT !.robots_fetched = TRUE]
          [] k = 9 -> IF full THEN [p EXCEPT !.valid_sitemaps = g.valid_sitemaps]
                      ELSE [p EXCEPT !.invalid_sitemaps = g.valid_sitemaps]
          [] k = 10 -> IF full
                       THEN [p EXCEPT !.anchors = g.anchors, !.link_order = g.link_order,
                                      !.link_get = g.link_get]
                       ELSE [p EXCEPT !.anchors = <<Link(u, "/about", TRUE)>>,
                                      !.link_order = <<UrlJoin(u, "/about")>>,
                                      !.link_get = g.link_get]
          [] k = 11 -> [p EXCEPT !.images = <<[alt |-> IF full THEN "good" ELSE "weak",
                                               src |-> "/hero.png"]>>]
          [] k = 12 -> [p EXCEPT !.canonical_hrefs =
                                    IF full THEN g.canonical_hrefs
                                    ELSE <<UrlJoin(u, "/"), UrlJoin(u, "/home")>>]
          [] k = 13 -> [p EXCEPT !.hreflang_links = g.hreflang_links]

RECURSIVE Stair(_, _)
\* LowPage with the first k knobs at full score
Stair(k, u) == IF k = 0 THEN LowPage(u) ELSE Knob(k, TRUE, Stair(k - 1, u), u)

\* pages whose scores climb from the lowest to the highest in half-point steps
StairPages(u) ==
    {Stair(k, u) : k \in 0..NKnobs}
    \cup {Knob(k + 1, FALSE, Stair(k, u), u) : k \in 0..(NKnobs - 1)}

\* t img elements: the first m without alt text, the next w with weak alt text
ImageMix(t, m, w) ==
    [i \in 1..t |-> [alt |-> IF i <= m THEN "missing" ELSE IF i <= m + w THEN "weak" ELSE "good",
                     src |-> "/img" \o ToString(i) \o ".png"]]

\* pages with more images than the small variants have
CountedImages ==
    {ImageMix(4, 1, 1), ImageMix(8, 0, 1), ImageMix(50, 50, 0), ImageMix(51, 51, 0),
     ImageMix(55, 52, 3), ImageMix(60, 0, 60)}

\* a page with n internal links /p1 .. /pn, all in context, of which those numbered
\* in gone answer 404 and those in down fail
ManyLinks(u, n, gone, down) ==
    [GoodPage(u) EXCEPT
        !.anchors = [i \in 1..n |-> Link(u, "/p" \o ToString(i), TRUE)],
        !.link_order = [i \in 1..n |-> UrlJoin(u, "/p" \o ToString(i))],
        !.link_get = [l \in {UrlJoin(u, "/p" \o ToString(i)) : i \in 1..n} |->
                        IF l \in {UrlJoin(u, "/p" \o ToString(i)) : i \in gone} THEN 404
                        ELSE IF l \in {UrlJoin(u, "/p" \o ToString(i)) : i \in down} THEN 0
                        ELSE 200]]

ManyLinkPages(u) ==
    {ManyLinks(u, 10, {3}, {}), ManyLinks(u, 10, {7}, {2}), ManyLinks(u, 10, {}, {}),
     ManyLinks(u, 10, 1..10, {})}

PagePages(u) ==
    Variants(GoodPage(u), u) \cup Variants(BarePage(u), u) \cup StairPages(u)
    \cup {[GoodPage(u) EXCEPT !.images = v] : v \in CountedImages}

Everything == Range(Analyzers) \cup {CrossCheck}

\* what a URL serves: the answers to the page requests, the parsed page and what
\* the site answers to the analyzers, the analyzers that may raise
Site(answers, page, may_raise) == [answers |-> answers, page |-> page, may_raise |-> may_raise]

World(html, page, may_raise) == Site(Serve(html), page, may_raise)

----------------------------------------------------------------------------
(* The script as a state machine *)

CurUrl == unique_urls[idx]

\* lines 535-554: build and deduplicate the URL list; exit 2 when it is empty
BuildUrlList ==
    /\ pc = "start"
    /\ args.show_history = <<>>
    /\ unique_urls' = Dedupe(urls, {})
    /\ IF Dedupe(urls, {}) = <<>>
       THEN /\ pc' = "done"
            /\ exit_code' = 2
            /\ idx' = idx
       ELSE /\ pc' = "fetch"
            /\ exit_code' = exit_code
            /\ idx' = 1
    /\ UNCHANGED <<args, urls, web, step, results, raised, crossed, outputs, files, history, shown>>

\* run_all_checks lines 100-109: fetch; a falsy html returns the error record; an
\* exception that leaves fetch_html leaves the script (traceback, exit status 1)
Fetch ==
    /\ pc = "fetch"
    /\ step' = 0
    /\ raised' = {}
    /\ crossed' = FALSE
    /\ LET html == fetch_html(web[CurUrl].answers, args.use_scraperapi)
       IN  IF IsRaise(html)
           THEN /\ results' = results
                /\ pc' = "done"
                /\ exit_code' = 1
           ELSE IF Truthy(html.value)
           THEN /\ results' = EmptyDict
                /\ pc' = "analyze"
                /\ exit_code' = exit_code
           ELSE /\ results' = [error |-> FetchErrorMsg]
                /\ pc' = "score"
                /\ exit_code' = exit_code
    /\ UNCHANGED <<args, urls, web, unique_urls, idx, outputs, files, history, shown>>

\* run_all_checks lines 123-133: the next analyzer, through _spin_step
RunAnalyzer ==
    /\ pc = "analyze"
    /\ step < Len(Analyzers)
    /\ LET i == step + 1
           name == Analyzers[i]
       IN  \E fault \in (IF name \in web[CurUrl].may_raise THEN BOOLEAN ELSE {FALSE}) :
             LET out == IF fault THEN Raise(InjectedCause)
                        ELSE AnalyzerCall(i, CurUrl, web[CurUrl].page, args)
             IN  /\ results' = StoreEntry(results, name, _spin_step(Labels[i], out))
                 /\ raised' = IF IsRaise(out) THEN raised \cup {name} ELSE raised
    /\ step' = step + 1
    /\ pc' = IF step + 1 = Len(Analyzers) THEN "cross" ELSE "analyze"
    /\ UNCHANGED <<args, urls, web, unique_urls, idx, crossed, outputs, files, history, exit_code, shown>>

\* run_all_checks lines 136-151: the author cross-check, through _spin_step, whose
\* return value is dropped
AuthorMatch ==
    /\ pc = "cross"
    /\ \E fault \in (IF CrossCheck \in web[CurUrl].may_raise THEN BOOLEAN ELSE {FALSE}) :
          /\ results' = IF fault THEN results ELSE _author_match(results)
          /\ raised' = IF fault THEN raised \cup {CrossCheck} ELSE raised
    /\ crossed' = TRUE
    /\ pc' = "score"
    /\ UNCHANGED <<args, urls, web, unique_urls, idx, step, outputs, files, history, exit_code, shown>>

\* the loop body also appending the URL's history entry as soon as it is scored
ScoreUrlAppending ==
    /\ pc = "score"
    /\ outputs' = Append(outputs, [url |-> CurUrl, results |-> Scored(results, args.threshold)])
    /\ history' = IF ~args.no_history
                  THEN _append_history(history,
                           HistoryEntries(<<[url |-> CurUrl,
                                             results |-> Scored(results, args.threshold)]>>))
                  ELSE history
    /\ IF idx < Len(unique_urls)
       THEN /\ idx' = idx + 1
            /\ pc' = "fetch"
       ELSE /\ idx' = idx
            /\ pc' = "output"
    /\ UNCHANGED <<args, urls, web, unique_urls, step, results, raised, crossed, files, exit_code, shown>>

\* lines 634-704: score summary, section scores, append to outputs, next URL
ScoreUrl ==
    /\ pc = "score"
    /\ outputs' = Append(outputs, [url |-> CurUrl, results |-> Scored(results, args.threshold)])
    /\ IF idx < Len(unique_urls)
       THEN /\ idx' = idx + 1
            /\ pc' = "fetch"
       ELSE /\ idx' = idx
            /\ pc' = "output"
    /\ UNCHANGED <<args, urls, web, unique_urls, step, results, raised, crossed, files, history, exit_code, shown>>

\* lines 714-761: the JSON and CSV output files
WriteOutputs ==
    /\ pc = "output"
    /\ files' = [json |-> IF args.output_json THEN outputs ELSE <<>>,
                 csv |-> IF args.output_csv THEN CsvRows(outputs) ELSE <<>>]
    /\ pc' = "history"
    /\ UNCHANGED <<args, urls, web, unique_urls, idx, step, results, raised, crossed, outputs, history, exit_code, shown>>

\* lines 763-777: append one history entry per item of outputs
AppendHistory ==
    /\ pc = "history"
    /\ history' = IF ~args.no_history
                  THEN _append_history(history, HistoryEntries(outputs))
                  ELSE history
    /\ pc' = "exit"
    /\ UNCHANGED <<args, urls, web, unique_urls, idx, step, results, raised, crossed, outputs, files, exit_code, shown>>

\* lines 779-788: the exit code
Exit ==
    /\ pc = "exit"
    /\ exit_code' = ExitCode(outputs, args.threshold)
    /\ pc' = "done"
    /\ UNCHANGED <<args, urls, web, unique_urls, idx, step, results, raised, crossed, outputs, files, history, shown>>

\* lines 532-534: --show-history prints the tables and exits 0; an exception that
\* leaves _show_history ends the process with status 1
ShowHistory ==
    /\ pc = "start"
    /\ args.show_history # <<>>
    /\ shown' = _show_history(history, args.show_history[1])
    /\ exit_code' = IF _show_history(history, args.show_history[1]).raised THEN 1 ELSE 0
    /\ pc' = "done"
    /\ UNCHANGED <<args, urls, web, unique_urls, idx, step, results, raised, crossed, outputs,
                   files, history>>

\* the script stops between the first fetch and the history block: an exception
\* leaves it (open() of an output file failing, for one) or the process is
\* interrupted; nothing after that point runs
Stop ==
    /\ pc \in {"fetch", "analyze", "cross", "score", "output", "history"}
    /\ pc' = "stopped"
    /\ exit_code' = 1
    /\ UNCHANGED <<args, urls, web, unique_urls, idx, step, results, raised, crossed, outputs,
                   files, history, shown>>

Next ==
    \/ BuildUrlList
    \/ Fetch
    \/ RunAnalyzer
    \/ AuthorMatch
    \/ ScoreUrl
    \/ WriteOutputs
    \/ AppendHistory
    \/ Exit

----------------------------------------------------------------------------
(* Initial states and specifications *)

\* the state of the script after parse_args, on an empty or older history file
Start(prior) ==
    /\ pc = "start"
    /\ unique_urls = <<>>
    /\ idx = 0
    /\ step = 0
    /\ results = EmptyDict
    /\ raised = {}
    /\ crossed = FALSE
    /\ outputs = <<>>
    /\ files = [json |-> <<>>, csv |-> <<>>]
    /\ history = prior
    /\ exit_code = Running
    /\ shown = NothingShown

OldEntry ==
    [timestamp |-> "2024-06-30T12:00:00Z", url |-> UrlA,
     score_summary |-> [score2 |-> 20, max |-> 14, percent |-> 7140,
                        threshold |-> DefaultThreshold, result |-> "FAIL"],
     section_scores |-> SectionScores(EmptyDict)]

UrlPool == {UrlA, UrlB}

\* a page scoring 11.5 of 14: above the default threshold, below 100
MidPage(u) ==
    [GoodPage(u) EXCEPT !.title = Title49, !.images = <<>>, !.canonical_hrefs = <<>>]

BatchKinds == {"unreachable", "empty", "good", "bare", "mid", "flaky"}

BatchWorld(u, kind) ==
    CASE kind = "unreachable" -> World(None, BarePage(u), {})
      [] kind = "empty" -> World("", BarePage(u), {})
      [] kind = "good" -> World("<html>", GoodPage(u), {})
      [] kind = "bare" -> World("<html>", BarePage(u), {})
      [] kind = "mid" -> World("<html>", MidPage(u), {})
      [] kind = "flaky" -> World("<html>", GoodPage(u), {"schema"})

BatchArgs ==
    {ArgsDefault,
     [ArgsDefault EXCEPT !.no_history = TRUE],
     [ArgsDefault EXCEPT !.output_json = TRUE, !.output_csv = TRUE],
     [ArgsDefault EXCEPT !.threshold = 10000],
     [ArgsDefault EXCEPT !.threshold = 1430]}

\* batches of up to MaxUrls URLs, repeats included
Init ==
    /\ args \in BatchArgs
    /\ urls \in SeqsUpTo(UrlPool, MaxUrls)
    /\ \E kind \in [Range(urls) -> BatchKinds] :
          web = [u \in Range(urls) |-> BatchWorld(u, kind[u])]
    /\ \E prior \in {<<>>, <<Dumps(OldEntry)>>} : Start(prior)

Spec == Init /\ [][Next]_vars

\* pages for the fault runs: the author and schema features the cross-check reads
AuditPages(u) ==
    {[GoodPage(u) EXCEPT !.author_meta = a, !.ld_json = l] :
        a \in {None, "Jane Doe", "Bob Roe"},
        l \in {<<>>, <<ArticleTag("Jane Doe")>>, <<[kind |-> "invalid_json"]>>,
               <<[kind |-> "empty"]>>}}
    \cup {BarePage(u)}

\* one URL whose every analyzer, and the cross-check, may raise
InitAudit ==
    /\ args = ArgsDefault
    /\ urls = <<UrlA>>
    /\ \E page \in AuditPages(UrlA) : web = [u \in {UrlA} |-> World("<html>", page, Everything)]
    /\ Start(<<>>)

SpecAudit == InitAudit /\ [][Next]_vars

\* audits are run while the history file has fewer lines than this
MaxLines == 3

\* --show-history without a number
DefaultShow == 20

ShowLimits == {0, 1, 2, 3, DefaultShow}

\* the command lines of the history runs: audits of no, one or two URLs (one of
\* them given twice) with and without history, and reads of the last N lines
HistoryRuns ==
    {[a |-> ArgsDefault, urls |-> <<u>>, web |-> [v \in {u} |-> BatchWorld(u, k)]] :
        u \in {UrlA, UrlLong}, k \in {"good", "unreachable"}}
    \cup {[a |-> ArgsDefault, urls |-> <<UrlLong, UrlA>>,
           web |-> (UrlLong :> BatchWorld(UrlLong, "unreachable") @@ UrlA :> BatchWorld(UrlA, "bare"))],
          [a |-> [ArgsDefault EXCEPT !.no_history = TRUE], urls |-> <<UrlA>>,
           web |-> [v \in {UrlA} |-> BatchWorld(UrlA, "good")]],
          [a |-> ArgsDefault, urls |-> <<UrlA, UrlLong, UrlA>>,
           web |-> (UrlA :> BatchWorld(UrlA, "good") @@ UrlLong :> BatchWorld(UrlLong, "unreachable"))],
          [a |-> ArgsDefault, urls |-> <<>>, web |-> <<>>]}
    \cup {[a |-> [ArgsDefault EXCEPT !.show_history = <<n>>], urls |-> q,
           web |-> [v \in Range(q) |-> BatchWorld(v, "good")]] :
            n \in ShowLimits, q \in {<<>>, <<UrlA>>}}

\* history files found at the first run: none or empty, written by an earlier
\* run, or holding lines that are no history records
InitialFiles ==
    {<<>>,
     <<Dumps(OldEntry)>>,
     <<[kind |-> "invalid"]>>,
     <<Dumps(OldEntry), [kind |-> "array"]>>,
     <<[kind |-> "null"], Dumps(OldEntry)>>,
     <<Dumps(EmptyDict), [kind |-> "invalid"], Dumps(OldEntry)>>}

\* the script is run again, on the history file the earlier runs left
Invoke ==
    /\ pc = "done"
    /\ \E run \in HistoryRuns :
          /\ Len(history) < MaxLines \/ run.a.show_history # <<>>
          /\ args' = run.a
          /\ urls' = run.urls
          /\ web' = run.web
    /\ pc' = "start"
    /\ unique_urls' = <<>>
    /\ idx' = 0
    /\ step' = 0
    /\ results' = EmptyDict
    /\ raised' = {}
    /\ crossed' = FALSE
    /\ outputs' = <<>>
    /\ exit_code' = Running
    /\ shown' = NothingShown
    /\ UNCHANGED <<files, history>>

NextHistory ==
    \/ Next
    \/ ShowHistory
    \/ Invoke

InitHistory ==
    /\ \E run \in HistoryRuns :
          /\ args = run.a
          /\ urls = run.urls
          /\ web = run.web
    /\ \E prior \in InitialFiles : Start(prior)

\* runs of the script one after another on one history file
SpecHistory == InitHistory /\ [][NextHistory]_vars

Thresholds == {0, 1430, 5000, 7500, 7860, DefaultThreshold, 10000, 10010}

\* the command lines and sites of the single-URL runs: every page under the
\* default command line, the stair pages under every threshold, the keyword and
\* link-limit options on the pages they bear on, a failed and an empty fetch, and
\* a site whose every analyzer may raise
PageInputs(u) ==
    {[a |-> ArgsDefault, w |-> World("<html>", q, {})] : q \in PagePages(u)}
    \cup {[a |-> [ArgsDefault EXCEPT !.threshold = t], w |-> World("<html>", q, {})] :
            t \in Thresholds, q \in StairPages(u)}
    \cup {[a |-> [ArgsDefault EXCEPT !.keyword = k],
           w |-> World("<html>", [GoodPage(u) EXCEPT !.title = t, !.meta_description = d], {})] :
            k \in {"", TheKeyword}, t \in TitleVals, d \in DescVals}
    \cup {[a |-> [ArgsDefault EXCEPT !.max_links = m],
           w |-> World("<html>", [GoodPage(u) EXCEPT !.anchors = v.anchors,
                                                     !.link_order = v.link_order,
                                                     !.link_get = v.link_get], {})] :
            m \in MaxLinksVals, v \in LinkVals(u)}
    \cup {[a |-> [ArgsDefault EXCEPT !.max_links = m], w |-> World("<html>", q, {})] :
            m \in {0, 5, DefaultMaxLinks}, q \in ManyLinkPages(u)}
    \cup {[a |-> [ArgsDefault EXCEPT !.threshold = t], w |-> World(h, BarePage(u), {})] :
            t \in Thresholds, h \in {None, ""}}
    \cup {[a |-> [ArgsDefault EXCEPT !.threshold = t], w |-> World("<html>", GoodPage(u), Everything)] :
            t \in {0, DefaultThreshold}}

\* one URL and what it serves
InitPage ==
    /\ urls = <<UrlA>>
    /\ \E inp \in PageInputs(UrlA) :
          /\ args = inp.a
          /\ web = [u \in {UrlA} |-> inp.w]
    /\ Start(<<>>)

SpecPage == InitPage /\ [][Next]_vars

\* the answers a site has ready for the page requests of one fetch
MaxAnswers == 2

\* connection error, timeout, and responses with and without an error status, the
\* status that triggers the retry and an empty body included
AnswerVals ==
    {Failure("ConnectionError"), Failure("Timeout"),
     Response(200, "<html>"), Response(200, ""), Response(403, "<html>"),
     Response(404, "<html>"), Response(503, "")}

RECURSIVE SeqsOfLen(_, _)
\* all sequences over S of length n
SeqsOfLen(S, n) ==
    IF n = 0 THEN {<<>>} ELSE {Append(q, x) : q \in SeqsOfLen(S, n - 1), x \in S}

\* one URL, every way its site can answer the page requests, fetched directly or
\* through ScraperAPI
InitFetch ==
    /\ urls = <<UrlA>>
    /\ args \in {ArgsDefault, [ArgsDefault EXCEPT !.use_scraperapi = TRUE]}
    /\ \E q \in SeqsOfLen(AnswerVals, MaxAnswers), page \in {GoodPage(UrlA), BarePage(UrlA)} :
          web = [u \in {UrlA} |-> Site(q, page, {})]
    /\ Start(<<>>)

SpecFetch == InitFetch /\ [][Next]_vars

NextStop ==
    \/ Next
    \/ Stop

\* batches of reachable and unreachable URLs, in runs that may stop at any point
InitStop ==
    /\ args \in BatchArgs
    /\ urls \in SeqsUpTo(UrlPool, MaxUrls)
    /\ \E kind \in [Range(urls) -> {"good", "unreachable"}] :
          web = [u \in Range(urls) |-> BatchWorld(u, kind[u])]
    /\ \E prior \in {<<>>, <<Dumps(OldEntry)>>} : Start(prior)

SpecStop == InitStop /\ [][NextStop]_vars

----------------------------------------------------------------------------
(* Properties *)

\* fetch_html gave run_all_checks a non-empty text for u
Fetched(u) ==
    /\ ~IsRaise(fetch_html(web[u].answers, args.use_scraperapi))
    /\ Truthy(fetch_html(web[u].answers, args.use_scraperapi).value)

\* run_all_checks has returned for the current URL, with a fetched page
Returned == pc = "score" /\ Fetched(CurUrl)

\* the results of a run of the current URL in which nothing raises but what the
\* page data makes raise
NoFaultRun == run_all_checks(CurUrl, web[CurUrl], args, {})

FaultCauses ==
    {InjectedCause, TagCause([kind |-> "empty"]), TagCause([kind |-> "json"])}

FaultRecords(i) ==
    {[status |-> "error", message |-> Labels[i] \o " error: " \o c] : c \in FaultCauses}

\* every status value an entry carries, at the top level and in its sub-results
EntryStatuses(e) ==
    (IF "status" \in DOMAIN e THEN {e.status} ELSE {})
    \cup {e[k].status : k \in DOMAIN e \cap {"title", "meta_description", "author",
                                            "sitemaps", "canonical", "hreflang"}}
    \cup {e[k] : k \in DOMAIN e \cap {"h1_status", "h_hierarchy"}}
    \cup (IF "sitemaps" \in DOMAIN e
          THEN {e.sitemaps.validated[i].status : i \in DOMAIN e.sitemaps.validated}
          ELSE {})

DerivedKeys == {"_score_summary", "_section_scores"}

\* C1 (as claimed): after a fetched run, each analyzer that raised has the record
\* {status: error, message: "<label> error: <cause>"}, all ten analyzers ran, and
\* each analyzer that did not raise has the entry of the run in which none raises.
C1_Original ==
    Returned =>
        /\ step = Len(Analyzers)
        /\ \A i \in DOMAIN Analyzers :
              IF Analyzers[i] \in raised
              THEN results[Analyzers[i]] \in FaultRecords(i)
              ELSE results[Analyzers[i]] = NoFaultRun[Analyzers[i]]

\* C1 (amended): as above, except that the title_meta entry is the one the
\* title/meta analyzer produced, not revised by the author cross-check, when the
\* schema analyzer or the cross-check raised.
C1_Isolation ==
    Returned =>
        /\ step = Len(Analyzers)
        /\ DOMAIN results = Range(Analyzers)
        /\ \A i \in DOMAIN Analyzers :
              IF Analyzers[i] \in raised
              THEN results[Analyzers[i]] \in FaultRecords(i)
              ELSE IF Analyzers[i] = "title_meta" /\ raised \cap {"schema", CrossCheck} # {}
              THEN results.title_meta = check_title_and_meta(web[CurUrl].page, args.keyword)
              ELSE results[Analyzers[i]] = NoFaultRun[Analyzers[i]]

\* a run in which the schema and headings analyzers raised and the title_meta
\* entry differs from the one of the run without faults
C1_Witness ==
    /\ Returned
    /\ {"schema", "headings"} \subseteq raised
    /\ "title_meta" \notin raised
    /\ results.title_meta # NoFaultRun.title_meta
    /\ results.images = NoFaultRun.images

\* C2: whenever the fetch succeeded, the mapping run_all_checks returns, and the
\* mapping kept in outputs, has exactly the ten analyzer keys, whatever raised.
C2_Completeness ==
    /\ Returned => DOMAIN results = Range(Analyzers)
    /\ \A k \in DOMAIN outputs :
          Fetched(outputs[k].url) =>
              DOMAIN outputs[k].results \ DerivedKeys = Range(Analyzers)

\* a returned mapping of a run in which all ten analyzers and the cross-check raised
C2_Witness == Returned /\ raised = Everything /\ Cardinality(DOMAIN results) = Len(Analyzers)

\* C3 (as claimed): every entry carries one status and every status value is one
\* of pass, warning, fail, error.
C3_Original ==
    Returned =>
        \A n \in DOMAIN results :
            /\ "status" \in DOMAIN results[n]
            /\ EntryStatuses(results[n]) \subseteq {"pass", "warning", "fail", "error"}

TopLevelStatus == {"mobile_responsiveness", "internal_links", "images", "indexability", "faq"}

\* C3 (amended): every status value is one of pass, ok, found, warning, fail,
\* missing, error; an entry has a status of its own exactly when it is a fault
\* record or the entry of mobile_responsiveness, internal_links, images,
\* indexability or faq; the other entries carry their statuses in sub-results
\* (a schema entry that is no fault record carries none).
C3_Statuses ==
    Returned =>
        \A n \in DOMAIN results :
            /\ EntryStatuses(results[n])
                  \subseteq {"pass", "ok", "found", "warning", "fail", "missing", "error"}
            /\ "status" \in DOMAIN results[n] <=> (n \in TopLevelStatus \/ n \in raised)
            /\ (n = "schema" /\ n \notin raised) => EntryStatuses(results[n]) = {}
            /\ (n # "schema") => EntryStatuses(results[n]) # {}

\* a mapping whose author status the cross-check set to warning, beside an ok
\* title, a found h1 and a schema fault-free entry
C3_Witness ==
    /\ Returned
    /\ raised = {}
    /\ results.title_meta.author.status = "warning"
    /\ results.title_meta.title.status = "ok"
    /\ results.headings.h1_status = "found"

\* every request the analyzers make is answered without failure
NoNetworkFailure(u, page) ==
    /\ page.mobile_get_ok
    /\ page.head_ok
    /\ page.robots_fetched
    /\ \A x \in Range(page.sitemap_lines) \cup {UrlJoin(u, "/sitemap.xml"), UrlJoin(u, "/sitemap_index.xml")} :
          x \in page.valid_sitemaps \cup page.invalid_sitemaps
    /\ \A l \in Range(page.link_order) : page.link_get[l] # 0 /\ page.link_get[l] < BrokenFrom

\* C4: on a page where no analyzer raises and no request fails, no status in the
\* mapping is 'error'.
C4_NoErrorOnAbsence ==
    (Returned /\ raised = {} /\ NoNetworkFailure(CurUrl, web[CurUrl].page)) =>
        \A n \in DOMAIN results : "error" \notin EntryStatuses(results[n])

Summary(k) == outputs[k].results._score_summary

\* C5: every score summary has 0 <= score <= max and 0 <= percent <= 100.
C5_ScoreBounds ==
    \A k \in DOMAIN outputs :
        /\ 0 <= Summary(k).score2
        /\ Summary(k).score2 <= 2 * Summary(k).max
        /\ 0 <= Summary(k).percent
        /\ Summary(k).percent <= 100 * 100

\* the summary of a mapping in which every analyzer raised
C5_Witness ==
    /\ pc = "done"
    /\ Range(Analyzers) \subseteq raised
    /\ Summary(1).score2 = 0
    /\ Summary(1).percent = 0

\* C6: result is PASS exactly when the summary's percent is >= its threshold.
C6_VerdictMatchesPercent ==
    \A k \in DOMAIN outputs :
        Summary(k).result = "PASS" <=> Summary(k).percent >= Summary(k).threshold

\* C7 (as claimed): max is 13 in every score summary.
C7_Original == \A k \in DOMAIN outputs : Summary(k).max = 13

\* C7 (amended): max is 14 in every score summary, whatever the page has, whatever
\* raised and whether or not the fetch failed; a page without images scores 0 on
\* the images line.
C7_MaxConstant ==
    \A k \in DOMAIN outputs :
        /\ Summary(k).max = 14
        /\ IsTrue([z |-> IntOr0(GetDict(outputs[k].results, "images"), "total_images") = 0], "z")
              => ScoreLines(outputs[k].results)[12] = 0

\* the summary of a fetched page without images
C7_Witness ==
    /\ pc = "done"
    /\ Fetched(outputs[1].url)
    /\ raised = {}
    /\ outputs[1].results.images.total_images = 0
    /\ Summary(1).max = 14
    /\ Summary(1).score2 > 0

\* the reported percent of u's item is below the threshold
ReportedBelow(k) == Summary(k).percent < args.threshold

\* C8: for a non-empty URL list the exit code is 2 iff some URL's fetch failed
\* (fetch_html gave no text); otherwise 1 iff some URL's reported percent is below
\* the threshold; otherwise 0.
C8_ExitCode ==
    (pc = "done" /\ urls # <<>>) =>
        /\ exit_code = 2 <=> \E u \in Range(urls) : ~Fetched(u)
        /\ (\A u \in Range(urls) : Fetched(u)) =>
              /\ exit_code = 1 <=> \E k \in DOMAIN outputs : ReportedBelow(k)
              /\ exit_code = 0 <=> \A k \in DOMAIN outputs : ~ReportedBelow(k)

\* a batch of two URLs that exits 2 although one of them passes
C8_Witness ==
    /\ pc = "done"
    /\ exit_code = 2
    /\ Len(outputs) = 2
    /\ \E k \in DOMAIN outputs : Fetched(outputs[k].url) /\ Summary(k).result = "PASS"

\* C9: after an invocation with history enabled, no history line written by it
\* carries a score summary for a URL whose fetch failed.
C9_NoScoreForFailedFetch ==
    (pc = "done" /\ ~args.no_history) =>
        \A k \in DOMAIN history :
            (history[k].value.timestamp = Timestamp /\ ~Fetched(history[k].value.url))
                => history[k].value.score_summary = EmptyDict

\* the indices of urls at which a URL occurs for the first time
Firsts == {j \in DOMAIN urls : \A k \in 1..(j - 1) : urls[k] # urls[j]}

\* the i-th distinct URL in order of first occurrence
NthDistinct(i) == urls[CHOOSE j \in Firsts : Cardinality({k \in Firsts : k < j}) = i - 1]

\* the results an audit of u alone can give
AloneResults(u) ==
    {Scored(run_all_checks(u, web[u], args, F), args.threshold) : F \in SUBSET web[u].may_raise}

\* C10: URLs are audited one at a time in order of first occurrence; once the loop
\* has ended outputs has one item per distinct URL in that order; the item of a
\* URL whose fetch failed carries 'error'; every item is a result the audit of its
\* URL alone can give, whatever happened to the URLs before it.
C10_Batch ==
    /\ Len(outputs) <= Cardinality(Firsts)
    /\ \A i \in DOMAIN outputs :
          /\ outputs[i].url = NthDistinct(i)
          /\ outputs[i].results \in AloneResults(outputs[i].url)
          /\ ~Fetched(outputs[i].url) => Truthy(Get(outputs[i].results, "error"))
    /\ pc \in {"fetch", "analyze", "cross", "score"} =>
          /\ Len(outputs) = idx - 1
          /\ idx <= Cardinality(Firsts)
          /\ CurUrl = NthDistinct(idx)
    /\ pc \in {"output", "history", "exit"} => Len(outputs) = Cardinality(Firsts)
    /\ (pc = "done" /\ urls # <<>>) => Len(outputs) = Cardinality(Firsts)

\* a batch with a repeated URL whose first audit failed to fetch and whose second
\* URL was audited in full
C10_Witness ==
    /\ pc = "done"
    /\ Len(urls) > Len(outputs)
    /\ Len(outputs) = 2
    /\ ~Fetched(outputs[1].url)
    /\ Fetched(outputs[2].url)
    /\ Summary(2).score2 > 0

\* the declared author and the schema author list as the entries hold them
DeclaredAuthor(res) ==
    IF "author" \in DOMAIN res.title_meta THEN res.title_meta.author.content ELSE None

ListedAuthors(res) ==
    IF "authors" \in DOMAIN res.schema THEN res.schema.authors ELSE <<>>

BothSides(res) == Truthy(DeclaredAuthor(res)) /\ ListedAuthors(res) # <<>>

MatchVerdict == [status |-> "ok", message |-> "Author matches schema."]

MismatchVerdict ==
    [status |-> "warning", message |-> "Author meta does not match schema author(s)."]

\* the author sub-result res holds, restricted to status and message
Verdict(res) ==
    [k \in DOMAIN res.title_meta.author \cap {"status", "message"} |-> res.title_meta.author[k]]

\* the cross-check step has just run without raising
CrossChecked == pc = "cross" /\ pc' = "score" /\ CrossCheck \notin raised'

\* C11 (as claimed): when the declared author and the schema author list are both
\* non-empty, the cross-check sets the author status to ok with 'Author matches
\* schema.' if the declared author equals some listed author ignoring case, and to
\* warning with the mismatch message otherwise; else it leaves title_meta as it was.
C11_Original ==
    [][CrossChecked =>
          IF BothSides(results)
          THEN Verdict(results') =
                  IF \E i \in DOMAIN ListedAuthors(results) :
                        Lower(DeclaredAuthor(results)) = Lower(ListedAuthors(results)[i])
                  THEN MatchVerdict ELSE MismatchVerdict
          ELSE results'.title_meta = results.title_meta]_vars

\* C11 (amended): as claimed, with the listed authors compared after stripping
\* their surrounding whitespace.
C11_AuthorRule ==
    [][CrossChecked =>
          IF BothSides(results)
          THEN Verdict(results') =
                  IF \E i \in DOMAIN ListedAuthors(results) :
                        Lower(DeclaredAuthor(results)) = Lower(Strip(ListedAuthors(results)[i]))
                  THEN MatchVerdict ELSE MismatchVerdict
          ELSE results'.title_meta = results.title_meta]_vars

\* a match found only through the stripping: no listed author equals the declared
\* one ignoring case, and the author status is ok with the match message
C11_Witness ==
    /\ Returned
    /\ CrossCheck \notin raised
    /\ BothSides(results)
    /\ \A i \in DOMAIN ListedAuthors(results) :
          Lower(DeclaredAuthor(results)) # Lower(ListedAuthors(results)[i])
    /\ Verdict(results) = MatchVerdict

\* the mapping is complete: the ten analyzers have stored their entries
Completed == pc \in {"cross", "score"} /\ Fetched(CurUrl)

\* C12: for every completed result mapping, before or after the cross-check ran,
\* applying the author cross-check twice gives the mapping that applying it once
\* gives; in particular applying it again to the returned mapping changes nothing.
C12_Idempotent ==
    /\ Completed => _author_match(_author_match(results)) = _author_match(results)
    /\ (Returned /\ CrossCheck \notin raised) => _author_match(results) = results

\* a returned mapping the cross-check revised to warning, which a second
\* application leaves as it is
C12_Witness ==
    /\ Returned
    /\ CrossCheck \notin raised
    /\ BothSides(results)
    /\ Verdict(results) = MismatchVerdict
    /\ results.title_meta # check_title_and_meta(web[CurUrl].page, args.keyword)

\* record b is record a but for the fields in free, which b may set or add
SameBut(a, b, free) ==
    /\ DOMAIN a \ free = DOMAIN b \ free
    /\ DOMAIN a \subseteq DOMAIN b
    /\ \A k \in DOMAIN a \ free : a[k] = b[k]

\* C13: the cross-check step adds and removes no entry, changes nothing but the
\* status and message of title_meta.author, and changes nothing at all when it
\* raises or when title_meta or schema is an error record.
C13_Frame ==
    [][pc = "cross" =>
          /\ DOMAIN results' = DOMAIN results
          /\ \A n \in DOMAIN results \ {"title_meta"} : results'[n] = results[n]
          /\ SameBut(results.title_meta, results'.title_meta, {"author"})
          /\ "author" \in DOMAIN results.title_meta =>
                /\ "author" \in DOMAIN results'.title_meta
                /\ SameBut(results.title_meta.author, results'.title_meta.author,
                           {"status", "message"})
          /\ (CrossCheck \in raised' \/ raised \cap {"title_meta", "schema"} # {})
                => results' = results]_vars

\* the cross-check revised the author verdict while another analyzer's entry is an
\* error record
C13_Witness ==
    /\ Returned
    /\ raised = {"headings"}
    /\ Verdict(results) = MismatchVerdict
    /\ results.title_meta.author.content = "Bob Roe"
    /\ DOMAIN results = Range(Analyzers)

\* the order the claim names
FixedOrder ==
    <<"title_meta", "headings", "schema", "mobile_responsiveness", "robots_sitemaps",
      "internal_links", "images", "canonical_hreflang", "indexability", "faq">>

\* the entries analyzer i can produce from the page alone
OwnEntries(i) ==
    {AnalyzerEntry(i, CurUrl, web[CurUrl], args, F) : F \in {{}, {FixedOrder[i]}}}

\* C14: each analyzer step finds exactly the entries of the analyzers before it in
\* the fixed order and adds the entry of the next one, an entry determined by the
\* page alone and not by the entries already there; the cross-check step finds all
\* ten entries.
C14_Ordering ==
    [][/\ pc = "analyze" =>
             /\ DOMAIN results = {FixedOrder[i] : i \in 1..step}
             /\ step < Len(FixedOrder)
             /\ step' = step + 1
             /\ \E e \in OwnEntries(step + 1) :
                   results' = (FixedOrder[step + 1] :> e) @@ results
       /\ pc = "cross" => DOMAIN results = Range(FixedOrder)
       /\ crossed' # crossed => (pc = "cross" /\ step = Len(FixedOrder))]_vars

\* nine analyzers have run, the third of them raising, and faq has not
C14_Witness ==
    /\ pc = "analyze"
    /\ step = 9
    /\ raised = {"schema"}
    /\ DOMAIN results = Range(FixedOrder) \ {"faq"}
    /\ ~crossed

\* status values: absent, empty, the analyzers' vocabulary, other cases, unknown
StatusInputs ==
    {None, "", "pass", "ok", "found", "warning", "fail", "missing", "error",
     "PASS", "OK", "Warning", "yes", "n/a"}

\* the points the claim names, doubled, statuses being read without regard to case
ClaimedPoints2(s) ==
    CASE s \in {"pass", "ok", "found", "PASS", "OK"} -> 2
      [] s \in {"warning", "Warning"} -> 1
      [] OTHER -> 0

\* C15: for every status value, absent and unknown ones included, the section
\* percent is 100 times the points (pass/ok/found 1.0, warning 0.5, else 0.0), and
\* in every scored mapping each section that is scored from statuses has the
\* percent its score lines give.
C15_Consistent ==
    /\ \A s \in StatusInputs :
          /\ _points_from_status(s) = ClaimedPoints2(s)
          /\ _status_to_percent(s) = 50 * ClaimedPoints2(s)
    /\ \A k \in DOMAIN outputs :
          LET r == outputs[k].results
              L == ScoreLines(r)
              sec == r._section_scores
          IN  /\ sec.title_meta = Frac(50 * (L[1] + L[2] + L[3]), 3)
              /\ sec.headings = Frac(50 * (L[4] + L[5]), 2)
              /\ sec.schema = Frac(50 * L[6], 1)
              /\ sec.mobile = Frac(50 * L[7], 1)
              /\ sec.indexability = Frac(50 * L[8], 1)
              /\ sec.robots = Frac(50 * L[9], 1)
              /\ sec.sitemaps = Frac(50 * L[10], 1)
              /\ sec.canonical = Frac(50 * L[13], 1)
              /\ sec.hreflang = Frac(50 * L[14], 1)

\* a scored mapping with a warning (viewport), an ok title and a found h1
C15_Witness ==
    /\ pc = "done"
    /\ Fetched(outputs[1].url)
    /\ raised = {}
    /\ outputs[1].results.mobile_responsiveness.status = "warning"
    /\ outputs[1].results._section_scores.mobile = Frac(50, 1)
    /\ ScoreLines(outputs[1].results)[7] = 1
    /\ outputs[1].results.title_meta.title.status = "ok"
    /\ outputs[1].results.headings.h1_status = "found"

\* the number of img elements of the page served at u whose alt text is of class c
AltCount(u, c) ==
    Cardinality({i \in DOMAIN web[u].page.images : web[u].page.images[i].alt = c})

\* C16: for every audited page with t img elements, m of them without alt text and
\* w with weak alt text, the images section percent is
\* max(0, 100*(1 - m/t) - min(25, 100*w/t)) when t > 0 and 0 when t = 0.
C16_ImagesPercent ==
    \A k \in DOMAIN outputs :
        LET u == outputs[k].url
            t == Len(web[u].page.images)
            m == AltCount(u, "missing")
            w == AltCount(u, "weak")
        IN  (Fetched(u) /\ "images" \notin raised) =>
                outputs[k].results._section_scores.images =
                    IF t > 0
                    THEN Frac(Max(0, 100 * (t - m) - Min(25 * t, 100 * w)), t)
                    ELSE Frac(0, 1)

\* the first n links, in the order the set of internal links is iterated, that
\* answer 400 or more or do not answer
BrokenAmong(u, n) ==
    {i \in 1..n : LET code == web[u].page.link_get[web[u].page.link_order[i]]
                  IN  code = 0 \/ code >= 400}

\* C17: with d distinct internal links discovered and a limit max_links >= 0, the
\* number checked is min(d, max_links), the broken list has one item per checked
\* link that answered 400 or more or failed, broken <= checked, and the section
\* percent is 100*(1 - broken/checked) when checked > 0 and 0 when checked = 0.
C17_InternalLinksPercent ==
    \A k \in DOMAIN outputs :
        LET u == outputs[k].url
            il == outputs[k].results.internal_links
            d == Len(web[u].page.link_order)
            checked == Min(d, args.max_links)
            broken == Cardinality(BrokenAmong(u, checked))
        IN  (Fetched(u) /\ "internal_links" \notin raised /\ args.max_links >= 0) =>
                /\ il.total_internal = d
                /\ il.checked = checked
                /\ Len(il.broken) = broken
                /\ Len(il.broken) <= il.checked
                /\ outputs[k].results._section_scores.internal_links =
                      IF checked > 0 THEN Frac(100 * (checked - broken), checked)
                      ELSE Frac(0, 1)

\* ten links discovered, five checked, one of them broken: 80 percent
C17_Witness ==
    /\ pc = "done"
    /\ Fetched(outputs[1].url)
    /\ outputs[1].results.internal_links.total_internal = 10
    /\ outputs[1].results.internal_links.checked = 5
    /\ Len(outputs[1].results.internal_links.broken) = 1
    /\ outputs[1].results._section_scores.internal_links = Frac(80, 1)

\* a line that _append_history wrote: one JSON object with the keys of a history entry
WellFormed(line) ==
    /\ line.kind = "object"
    /\ {"timestamp", "url", "score_summary"} \subseteq DOMAIN line.value

\* the process was asked for the last N lines and has ended
ShowDone == pc = "done" /\ args.show_history # <<>>

\* the table rows of the last n of the given lines, oldest first
LastRows(lines, n) ==
    [i \in 1..n |-> HistoryRow(lines[Len(lines) - n + i].value)]

\* C18: on a history file that holds k entries appended by the program and nothing
\* else, a read of the last N entries, N >= 0, shows exactly the min(N, k) entries
\* appended last, in the order they were appended.
C18_TailRead ==
    (/\ ShowDone
     /\ args.show_history[1] >= 0
     /\ \A i \in DOMAIN history : WellFormed(history[i]))
    => /\ ~shown.raised
       /\ shown.rows = LastRows(history, Min(args.show_history[1], Len(history)))

\* s is a prefix of t
IsPrefixOf(s, t) == Len(s) <= Len(t) /\ SubSeq(t, 1, Len(s)) = s

\* the lines a step added at the end of the history file
Added == SubSeq(history', Len(history) + 1, Len(history'))

\* C19: over the audits and history reads run on one history file, the file before a
\* step is a prefix of the file after it, the audit's append adds exactly one line
\* per completed URL, each a whole entry and in the order audited, and a history
\* read leaves the file as it was.
C19_AppendOnly ==
    [][/\ IsPrefixOf(history, history')
       /\ \A i \in DOMAIN Added : WellFormed(Added[i])
       /\ (pc = "history" /\ ~args.no_history)
          => /\ Len(Added) = Len(outputs)
             /\ \A i \in DOMAIN Added : Added[i].value.url = outputs[i].url
       /\ (pc = "start" /\ args.show_history # <<>>) => history' = history]_vars

\* two entries were appended after a line that is no entry, and the file was then read
C19_Witness ==
    /\ ShowDone
    /\ Len(history) = 4
    /\ history[1] = Dumps(OldEntry)
    /\ history[2].kind = "array"
    /\ WellFormed(history[3]) /\ history[3].value.url = UrlLong
    /\ WellFormed(history[4]) /\ history[4].value.url = UrlA

\* the lines a read of the last n lines looks at that hold a JSON object
ObjectsRead(lines, n) == SelectSeq(PyTail(lines, n), LAMBDA l : l.kind = "object")

\* C20: a history read never fails, whatever lines the file holds; the lines among
\* those read that are not JSON, or are JSON but no object, are skipped and the
\* object lines among those read are all shown, in file order.
C20_Tolerant ==
    ShowDone
    => /\ ~shown.raised
       /\ exit_code = 0
       /\ shown.rows = [i \in DOMAIN ObjectsRead(history, args.show_history[1]) |->
                           HistoryRow(ObjectsRead(history, args.show_history[1])[i].value)]

\* C21: an audit run with history enabled appends, in one step, exactly one entry
\* per distinct URL of its input, in order of first occurrence; no other step of a
\* run adds a line, and a run with --no-history, with --show-history or without
\* URLs leaves the history file as it found it.
C21_OnePerUrl ==
    [][/\ IsPrefixOf(history, history')
       /\ (pc = "history" /\ ~args.no_history)
          => /\ Len(Added) = Cardinality(Firsts)
             /\ \A i \in DOMAIN Added :
                   WellFormed(Added[i]) /\ Added[i].value.url = NthDistinct(i)
       /\ (pc # "history" \/ args.no_history \/ args.show_history # <<>> \/ urls = <<>>)
          => history' = history]_vars

\* three URLs were given, one of them twice, and two entries were appended
C21_Witness ==
    /\ pc = "exit"
    /\ urls = <<UrlA, UrlLong, UrlA>>
    /\ Len(history) >= 3
    /\ WellFormed(history[Len(history) - 1]) /\ history[Len(history) - 1].value.url = UrlA
    /\ WellFormed(history[Len(history)]) /\ history[Len(history)].value.url = UrlLong
    /\ history[Len(history)].value.timestamp = Timestamp
    /\ history[Len(history) - 2].kind = "object" => history[Len(history) - 2].value = OldEntry

\* a JSON-LD script that cannot be used: text that is not JSON, an element without
\* text, or JSON whose top-level value or list items are not all objects
Unusable(tag) ==
    \/ tag.kind \in {"invalid_json", "empty"}
    \/ tag.kind = "json" /\ \E i \in DOMAIN tag.items : ~tag.items[i].isdict

\* C22: where nothing but the page's JSON-LD scripts can make it fail, check_schema
\* never raises; its payload has one 'schemas' element per script, and the element
\* of a script that cannot be used is an error entry.
C22_MalformedIsData ==
    (Returned /\ "schema" \notin web[CurUrl].may_raise) =>
        LET tags == web[CurUrl].page.ld_json
            sc == results.schema
        IN  /\ "schema" \notin raised
            /\ "schemas" \in DOMAIN sc
            /\ Len(sc.schemas) = Len(tags)
            /\ \A i \in DOMAIN tags : Unusable(tags[i]) => "error" \in DOMAIN sc.schemas[i]

\* the fault record _spin_step stores for an analyzer that raised
IsFaultRecord(e) == DOMAIN e = {"status", "message"} /\ e.status = "error"

\* the rubric lines (positions in ScoreLines) that read the entry of an analyzer
LinesFrom(name) ==
    CASE name = "title_meta" -> {1, 2, 3}
      [] name = "headings" -> {4, 5}
      [] name = "schema" -> {6}
      [] name = "mobile_responsiveness" -> {7}
      [] name = "indexability" -> {8}
      [] name = "robots_sitemaps" -> {9, 10}
      [] name = "internal_links" -> {11}
      [] name = "images" -> {12}
      [] name = "canonical_hreflang" -> {13, 14}
      [] OTHER -> {}

\* the sections computed from the entry of an analyzer
SectionsFrom(name) ==
    CASE name = "title_meta" -> {"title_meta"}
      [] name = "headings" -> {"headings"}
      [] name = "schema" -> {"schema"}
      [] name = "mobile_responsiveness" -> {"mobile"}
      [] name = "indexability" -> {"indexability"}
      [] name = "robots_sitemaps" -> {"robots", "sitemaps"}
      [] name = "internal_links" -> {"internal_links"}
      [] name = "images" -> {"images"}
      [] name = "canonical_hreflang" -> {"canonical", "hreflang"}
      [] OTHER -> {}

\* the analyzers whose entry in a mapping is the fault record
Faulted(res) == {n \in Range(FixedOrder) \cap DOMAIN res : IsFaultRecord(res[n])}

\* C23: in every scored mapping, each rubric line drawn from an analyzer whose entry
\* is the fault record adds 0 to the score, so that the score is the sum of the
\* lines of the other analyzers, each section drawn from such an analyzer is 0
\* percent, and the summary and the section scores are there.
C23_FaultScoresZero ==
    \A k \in DOMAIN outputs :
        LET res == outputs[k].results
            dead == UNION {LinesFrom(n) : n \in Faulted(res)}
        IN  Fetched(outputs[k].url) =>
              /\ {"_score_summary", "_section_scores"} \subseteq DOMAIN res
              /\ \A l \in dead : ScoreLines(res)[l] = 0
              /\ res._score_summary.score2 =
                    SeqSum([l \in DOMAIN ScoreLines(res) |->
                               IF l \in dead THEN 0 ELSE ScoreLines(res)[l]])
              /\ \A n \in Faulted(res) : \A sec \in SectionsFrom(n) :
                    res._section_scores[sec] = Frac(0, 1)

\* Title & Meta, Mobile and Robots & Sitemaps faulted on a page that scores elsewhere
C23_Witness ==
    /\ pc = "done"
    /\ Fetched(outputs[1].url)
    /\ Faulted(outputs[1].results) = {"title_meta", "mobile_responsiveness", "robots_sitemaps"}
    /\ outputs[1].results._section_scores.title_meta = Frac(0, 1)
    /\ outputs[1].results._section_scores.robots = Frac(0, 1)
    /\ outputs[1].results._section_scores.sitemaps = Frac(0, 1)
    /\ outputs[1].results._score_summary.score2 = 2 * 7
    /\ exit_code = 1

\* run_all_checks has called fetch_html for the current URL
FetchDone == pc \in {"analyze", "cross", "score"}

\* a request that ended in a network or protocol failure
Failed(r) == r.exc # None \/ r.status >= 400

\* C24: fetch_html never raises; it sends one request, or on the direct path two,
\* the second only after a first response with status 403; it returns None when
\* the last request sent failed (connection error, timeout, error status) and
\* otherwise the text of the last response; run_all_checks goes on to the
\* analyzers only with a text.
C24_FetchOutcome ==
    FetchDone =>
        LET q == web[CurUrl].answers
            out == fetch_html(q, args.use_scraperapi)
        IN  /\ ~IsRaise(out)
            /\ out.sent \in 1..2
            /\ out.sent = 2 =>
                  ~args.use_scraperapi /\ q[1].exc = None /\ q[1].status = 403
            /\ Failed(q[out.sent]) => out.value = None
            /\ out.value # None => ~Failed(q[out.sent]) /\ out.value = q[out.sent].text
            /\ pc \in {"analyze", "cross"} => Truthy(out.value)

\* a first response 403, the retry answered with the page, and the audit completed
C24_Witness ==
    /\ pc = "score"
    /\ ~args.use_scraperapi
    /\ web[CurUrl].answers = <<Response(403, "<html>"), Response(200, "<html>")>>
    /\ fetch_html(web[CurUrl].answers, FALSE) = [value |-> "<html>", sent |-> 2]
    /\ "error" \notin DOMAIN results
    /\ crossed

\* C25: when every URL of the batch was fetched, the exit code is 1 exactly when
\* some summary's result is FAIL and 0 exactly when every summary's result is PASS.
C25_ExitMatchesVerdicts ==
    (pc = "done" /\ urls # <<>> /\ \A u \in Range(urls) : Fetched(u)) =>
        /\ exit_code = 1 <=> \E k \in DOMAIN outputs : Summary(k).result = "FAIL"
        /\ exit_code = 0 <=> \A k \in DOMAIN outputs : Summary(k).result = "PASS"

\* the entries the FAQ analyzer can leave: its payloads and its fault record
FaqEntries ==
    {check_faq([faq_sections |-> v, headings |-> h]) : v \in FaqVals, h \in {<<>>, <<1, 3>>}}
    \cup {_spin_step(Labels[10], Raise(InjectedCause))}

\* item with its 'faq' entry replaced by e
WithFaq(item, e) == [item EXCEPT !.results.faq = e]

\* C26: for every audited item, the mapping that differs from it in the 'faq' entry
\* alone, whatever entry the FAQ analyzer leaves there, has the same score summary,
\* the same section scores, the same history entry and the same exit code.
C26_FaqNeutral ==
    \A k \in DOMAIN outputs :
        Fetched(outputs[k].url) =>
            \A e \in FaqEntries :
                LET other == WithFaq(outputs[k], e)
                IN  /\ compute_score(other.results, args.threshold) = Summary(k)
                    /\ SectionScores(other.results) = outputs[k].results._section_scores
                    /\ HistoryEntries(<<other>>) = HistoryEntries(<<outputs[k]>>)
                    /\ ExitCode(<<other>>, args.threshold) = ExitCode(<<outputs[k]>>, args.threshold)

\* the FAQ analyzer faulted, alone, on a page that scores every point
C26_Witness ==
    /\ pc = "done"
    /\ raised = {"faq"}
    /\ IsFaultRecord(outputs[1].results.faq)
    /\ Summary(1).score2 = 2 * Summary(1).max
    /\ exit_code = 0

\* the declared author equals a listed author, compared as the cross-check does
AuthorsAgree(res) ==
    \E i \in DOMAIN ListedAuthors(res) :
        Lower(DeclaredAuthor(res)) = Lower(Strip(ListedAuthors(res)[i]))

\* fraction a is at most fraction b
FracLeq(a, b) == a.num * b.den <= b.num * a.den

\* C27: over the cross-check step, whether it raises or not, the overall score and
\* the title_meta section percent of the mapping after the step are at most those
\* of the mapping before it; a match leaves both as they were and a mismatch takes
\* the author line from 1.0 to 0.5.
C27_CrossCheckNeverGains ==
    [][(pc = "cross" /\ pc' = "score") =>
          LET before == compute_score(results, args.threshold)
              after == compute_score(results', args.threshold)
              sec_before == SectionScores(results).title_meta
              sec_after == SectionScores(results').title_meta
              ran == CrossCheck \notin raised' /\ BothSides(results)
          IN  /\ after.score2 <= before.score2
              /\ FracLeq(sec_after, sec_before)
              /\ (ran /\ AuthorsAgree(results)) =>
                    after.score2 = before.score2 /\ sec_after = sec_before
              /\ (ran /\ ~AuthorsAgree(results)) =>
                    /\ ScoreLines(results)[3] = 2
                    /\ ScoreLines(results')[3] = 1
                    /\ after.score2 = before.score2 - 1
              /\ ~ran => results' = results]_vars

\* a mismatch that cost half a point: 13.5 of 14 on a page that is otherwise full
C27_Witness ==
    /\ pc = "done"
    /\ raised = {}
    /\ BothSides(outputs[1].results)
    /\ ~AuthorsAgree(outputs[1].results)
    /\ Verdict(outputs[1].results) = MismatchVerdict
    /\ Summary(1).score2 = 2 * Summary(1).max - 1

\* the history lines that carry the timestamp of this invocation
OwnLines == {i \in DOMAIN history : history[i].kind = "object" /\ history[i].value.timestamp = Timestamp}

\* what the output block leaves in the files
FilesWritten ==
    [json |-> IF args.output_json THEN outputs ELSE <<>>,
     csv |-> IF args.output_csv THEN CsvRows(outputs) ELSE <<>>]

\* C28: the history file changes in one step of an invocation only, the step of the
\* history block, taken when every URL of the batch has its item in outputs and the
\* output files are written; the lines it adds all carry one timestamp; before that
\* step, and in an invocation that stopped before it, the history holds no line of
\* this invocation.
C28_HistoryLast ==
    [][/\ history' # history =>
             /\ pc = "history" /\ pc' = "exit"
             /\ Len(outputs) = Len(unique_urls)
             /\ \A i \in DOMAIN outputs : outputs[i].url = unique_urls[i]
             /\ files = FilesWritten
             /\ IsPrefixOf(history, history')
             /\ \A i, j \in DOMAIN Added : Added[i].value.timestamp = Added[j].value.timestamp
       /\ pc \in {"start", "fetch", "analyze", "cross", "score", "output", "history"}
             => OwnLines = {}
       /\ pc' = "stopped" => history' = history /\ OwnLines = {}]_vars

\* a batch of two URLs stopped after both audits completed: no entry was appended
C28_Witness ==
    /\ pc = "stopped"
    /\ ~args.no_history
    /\ Len(unique_urls) = 2
    /\ Len(outputs) = 2
    /\ history = <<Dumps(OldEntry)>>

\* fetch_html returned the empty text for u: the last response had no error status
\* and no body
EmptyBody(u) == fetch_html(web[u].answers, args.use_scraperapi) = [value |-> "", sent |-> 1]
                \/ fetch_html(web[u].answers, args.use_scraperapi) = [value |-> "", sent |-> 2]

\* C29: for a URL whose fetch gave an empty body, run_all_checks returns the record
\* it returns for a failed fetch, holding 'error' alone, without running an
\* analyzer or the cross-check, and the invocation exits with 2.
C29_EmptyBodyIsFailure ==
    (unique_urls # <<>> /\ idx > 0 /\ EmptyBody(CurUrl)) =>
        /\ pc \notin {"analyze", "cross"}
        /\ pc = "score" =>
              /\ results = [error |-> FetchErrorMsg]
              /\ results = run_all_checks(CurUrl, World(None, web[CurUrl].page, {}), args, {})
              /\ step = 0 /\ raised = {} /\ ~crossed
        /\ \A k \in DOMAIN outputs :
              DOMAIN outputs[k].results = {"error", "_score_summary", "_section_scores"}
        /\ pc = "done" => exit_code = 2

\* a 403, then a retry answered 200 without body: the audit ended with exit code 2
C29_Witness ==
    /\ pc = "done"
    /\ web[UrlA].answers = <<Response(403, "<html>"), Response(200, "")>>
    /\ ~args.use_scraperapi
    /\ EmptyBody(UrlA)
    /\ outputs[1].results.error = FetchErrorMsg
    /\ exit_code = 2

\* C30: for every audited item whose schema entry is not the fault record, the
\* schema line scores 1 point and the schema section is 100 percent when the page
\* has at least one JSON-LD script element, whatever the scripts hold, and both are
\* 0 when it has none.
C30_SchemaByPresence ==
    \A k \in DOMAIN outputs :
        LET res == outputs[k].results
            tags == web[outputs[k].url].page.ld_json
        IN  (Fetched(outputs[k].url) /\ ~IsFaultRecord(res.schema)) =>
                IF tags # <<>>
                THEN ScoreLines(res)[6] = 2 /\ res._section_scores.schema = Frac(100, 1)
                ELSE ScoreLines(res)[6] = 0 /\ res._section_scores.schema = Frac(0, 1)

\* a page whose JSON-LD scripts are all invalid JSON, with the schema point scored
C30_Witness ==
    /\ pc = "done"
    /\ Len(web[UrlA].page.ld_json) = 2
    /\ \A i \in DOMAIN web[UrlA].page.ld_json : web[UrlA].page.ld_json[i].kind = "invalid_json"
    /\ outputs[1].results.schema.schema_found
    /\ outputs[1].results.schema.types = <<>>
    /\ ScoreLines(outputs[1].results)[6] = 2
    /\ outputs[1].results._section_scores.schema = Frac(100, 1)

====
